---- MODULE Spec2Model ----
(***************************************************************************)
(* Model of the nutrient extraction and aggregation pipeline of the        *)
(* MicronutrientTracking view (fetchNutrientData and the effect that       *)
(* drives it).  Text is a sequence of one-character strings, so the        *)
(* regular expressions, parseInt and the date formatting are computed      *)
(* the way the code computes them.                                         *)
(***************************************************************************)
EXTENDS Integers, Sequences, FiniteSets, TLC

VARIABLES
    user,             \* useAuth().user: NoUser or a signed-in user
    location,         \* the route, changed by navigate
    recipes,          \* the rows of the recipes table of the backing store
    loading,          \* useState(true)
    refreshKey,       \* useState(0)
    cameraDialogOpen, \* useState(false)
    nutrientHistory,  \* useState<NutrientData[]>([])
    effectDeps,       \* the dependencies the effect last ran with
    channels,         \* subscribed realtime channels of the view
    pendingEvents,    \* change events on their way to the channel
    requests,         \* the recipe fetches of the runs that are suspended
    rejected,         \* some call of fetchNutrientData ended in a rejection
    lastRecipesData,  \* the list fetched by the run that last finished its try block
    lastRun,          \* how the run that finished last ended
    overtaken,        \* how many of the suspended runs, the first ones of
                      \* requests, were triggered before a run that has finished
    lastOvertaken,    \* the run that finished last was one of them
    lastRepeated,     \* the run that finished last fetched the list of the
                      \* run whose days were held when it finished
    steps,            \* recipe.steps of the recipe being scanned
    micronutrients,   \* the six micronutrient fields of that recipe
    macronutrients,   \* the four macronutrient fields of that recipe
    scanned,          \* the steps.forEach of that recipe has run
    currentStep,      \* Goals: useState<FormStep>("goal-selection")
    userGoal,         \* Goals: the form fields that enable its controls
    calorieResults,   \* Goals: useState<CalorieResults | null>(null)
    mealPlan,         \* Goals: useState<MealPlan | null>(null)
    savedGoalId,      \* Goals: useState<string | null>(null)
    calculating,      \* Goals: useState(false)
    generatingMealPlan, \* Goals: useState(false)
    goalFetch,        \* Goals: where fetchExistingGoal of the mount effect is
    submitCall,       \* Goals: the await the call of handleSubmitGoal is at
    generateCall,     \* Goals: the await the call of handleGenerateMealPlan is at
    stepCall,         \* Goals: a step handler and the argument it is called with
    called,           \* Goals: that call has been made
    recipeCards,      \* RecipeFlashCards: the recipeCards prop
    currentCardIndex, \* RecipeFlashCards: useState(0)
    isLoading,        \* Index: useState(false)
    file,             \* Index: useState<File | null>(null)
    previewUrl,       \* Index: useState<string | null>(null)
    recipeData,       \* Index: useState<ApiResponse | null>(null)
    showFlashcards,   \* Index: useState(false)
    modalCardIndex,   \* Index: its currentCardIndex, useState(0)
    fileReads,        \* Index: the FileReader loads that have not fired onload
    submitRequest,    \* Index: the await the call of handleSubmit is at,
                      \* and how the last call ended
    cardAction        \* the handler of a flashcard viewer called last

viewVars == <<user, location, recipes, loading, refreshKey, cameraDialogOpen,
              nutrientHistory, effectDeps, channels, pendingEvents, requests,
              rejected, lastRecipesData, lastRun>>

extractVars == <<steps, micronutrients, macronutrients, scanned>>

orderVars == <<overtaken, lastOvertaken, lastRepeated>>

\* the state of MicronutrientTracking the other pages do not have
trackingVars == <<recipes, refreshKey, cameraDialogOpen, nutrientHistory,
                  effectDeps, channels, pendingEvents, requests, rejected,
                  lastRecipesData, lastRun>>

goalsVars == <<currentStep, userGoal, calorieResults, mealPlan, savedGoalId,
               calculating, generatingMealPlan, goalFetch, submitCall,
               generateCall, stepCall, called>>

cardsVars == <<recipeCards, currentCardIndex>>

indexVars == <<isLoading, file, previewUrl, recipeData, showFlashcards,
               modalCardIndex, fileReads, submitRequest, cardAction>>

\* the state of the pages other than MicronutrientTracking
pagesVars == <<goalsVars, cardsVars, indexVars>>

vars == <<user, location, recipes, loading, refreshKey, cameraDialogOpen,
          nutrientHistory, effectDeps, channels, pendingEvents, requests,
          rejected, lastRecipesData, lastRun, overtaken, lastOvertaken,
          lastRepeated, steps, micronutrients, macronutrients, scanned,
          currentStep, userGoal, calorieResults, mealPlan, savedGoalId,
          calculating, generatingMealPlan, goalFetch, submitCall,
          generateCall, stepCall, called, recipeCards, currentCardIndex,
          isLoading, file, previewUrl, recipeData, showFlashcards,
          modalCardIndex, fileReads, submitRequest, cardAction>>

(***************************************************************************)
(* Bounds                                                                  *)
(***************************************************************************)
\* steps of one scanned recipe
MaxSteps == 2

\* rows of the recipes table
MaxRecipes == 3

\* fetches outstanding at one time
MaxInFlight == 2

\* increments of the refresh counter
MaxRefresh == 2

\* change events not yet delivered
MaxPending == 1

\* cards of one recipe
MaxCards == 3

\* FileReader loads of the landing page that have not fired
MaxReads == 1

(***************************************************************************)
(* Characters                                                              *)
(***************************************************************************)
\* the upper case of each lower-case letter
UpperCase ==
    [a |-> "A", b |-> "B", c |-> "C", d |-> "D", e |-> "E", f |-> "F",
     g |-> "G", h |-> "H", i |-> "I", j |-> "J", k |-> "K", l |-> "L",
     m |-> "M", n |-> "N", o |-> "O", p |-> "P", q |-> "Q", r |-> "R",
     s |-> "S", t |-> "T", u |-> "U", v |-> "V", w |-> "W", x |-> "X",
     y |-> "Y", z |-> "Z"]

\* the lower case of each upper-case letter
LowerCase ==
    [A |-> "a", B |-> "b", C |-> "c", D |-> "d", E |-> "e", F |-> "f",
     G |-> "g", H |-> "h", I |-> "i", J |-> "j", K |-> "k", L |-> "l",
     M |-> "m", N |-> "n", O |-> "o", P |-> "p", Q |-> "q", R |-> "r",
     S |-> "s", T |-> "t", U |-> "u", V |-> "v", W |-> "w", X |-> "x",
     Y |-> "y", Z |-> "z"]

LowerCaseLetters == DOMAIN UpperCase

UpperCaseLetters == DOMAIN LowerCase

DigitChars == <<"0", "1", "2", "3", "4", "5", "6", "7", "8", "9">>

\* a comparison that keeps the case: the pattern without its i flag
CanonicalizeExact(c) == c

\* Canonicalize of a /i regular expression: a character maps to its upper case
Canonicalize(c) == IF c \in LowerCaseLetters THEN UpperCase[c] ELSE c

ToLowerCase(s) ==
    [i \in 1..Len(s) |-> IF s[i] \in UpperCaseLetters THEN LowerCase[s[i]] ELSE s[i]]

\* the value of each decimal digit
DigitValues ==
    ("0" :> 0) @@ ("1" :> 1) @@ ("2" :> 2) @@ ("3" :> 3) @@ ("4" :> 4) @@
    ("5" :> 5) @@ ("6" :> 6) @@ ("7" :> 7) @@ ("8" :> 8) @@ ("9" :> 9)

Digits == DOMAIN DigitValues

\* \d
IsDigit(c) == c \in Digits

DigitValue(c) == DigitValues[c]

\* parseInt of a captured \d+ group: its decimal value
RECURSIVE parseInt(_)
parseInt(str) ==
    IF Len(str) = 0 THEN 0
    ELSE 10 * parseInt(SubSeq(str, 1, Len(str) - 1)) + DigitValue(str[Len(str)])

(***************************************************************************)
(* String.prototype.match with the patterns                                *)
(*     /<Label>: (\d+)<unit> \((\d+)%\)/i                                  *)
(***************************************************************************)
\* the literal lit occurs in s at position i, compared case-insensitively
LiteralAt(s, i, lit) ==
    /\ i + Len(lit) - 1 <= Len(s)
    /\ \A k \in 1..Len(lit) : Canonicalize(s[i + k - 1]) = Canonicalize(lit[k])

\* last position of the greedy \d+ that starts at position i (i - 1: no digit)
RECURSIVE DigitRunEnd(_, _)
DigitRunEnd(s, i) ==
    IF i <= Len(s) /\ IsDigit(s[i]) THEN DigitRunEnd(s, i + 1) ELSE i - 1

\* the pattern matches s starting at position i; head is "<Label>: " and
\* mid is "<unit> ("
PatternAt(s, i, head, mid) ==
    /\ LiteralAt(s, i, head)
    /\ LET a  == i + Len(head)
           e1 == DigitRunEnd(s, a)
       IN  /\ e1 >= a
           /\ LiteralAt(s, e1 + 1, mid)
           /\ LET b  == e1 + 1 + Len(mid)
                  e2 == DigitRunEnd(s, b)
              IN  /\ e2 >= b
                  /\ LiteralAt(s, e2 + 1, <<"%", ")">>)

null == <<>>

\* a pattern that ends after the value: /<Label>: (\d+)/i, without a second group
StringMatchValueOnly(s, label, unit) ==
    LET head == label \o <<":", " ">>
        hits == {i \in 1..Len(s) :
                    /\ LiteralAt(s, i, head)
                    /\ DigitRunEnd(s, i + Len(head)) >= i + Len(head)}
    IN  IF hits = {} THEN null
        ELSE LET i  == CHOOSE h \in hits : \A g \in hits : h <= g
                 a  == i + Len(head)
                 e1 == DigitRunEnd(s, a)
             IN  <<SubSeq(s, i, e1), SubSeq(s, a, e1), <<>>>>

\* step.match(pattern): null, or <<whole match, group 1, group 2>> of the
\* leftmost match (the patterns carry no g flag)
StringMatch(s, label, unit) ==
    LET head == label \o <<":", " ">>
        mid  == unit \o <<" ", "(">>
        hits == {i \in 1..Len(s) : PatternAt(s, i, head, mid)}
    IN  IF hits = {} THEN null
        ELSE LET i  == CHOOSE h \in hits : \A g \in hits : h <= g
                 a  == i + Len(head)
                 e1 == DigitRunEnd(s, a)
                 b  == e1 + 1 + Len(mid)
                 e2 == DigitRunEnd(s, b)
             IN  <<SubSeq(s, i, e2 + 2), SubSeq(s, a, e1), SubSeq(s, b, e2)>>

(***************************************************************************)
(* The ten nutrients: object, key, label of the pattern, unit of the       *)
(* pattern and the unit literal stored on a match                          *)
(***************************************************************************)
NutrientPatterns == <<
    [group |-> "micronutrients", key |-> "vitamin_a", unit |-> "mcg",
     label |-> <<"V", "i", "t", "a", "m", "i", "n", " ", "A">>,
     unitText |-> <<"m", "c", "g">>],
    [group |-> "micronutrients", key |-> "vitamin_c", unit |-> "mg",
     label |-> <<"V", "i", "t", "a", "m", "i", "n", " ", "C">>,
     unitText |-> <<"m", "g">>],
    [group |-> "micronutrients", key |-> "calcium", unit |-> "mg",
     label |-> <<"C", "a", "l", "c", "i", "u", "m">>,
     unitText |-> <<"m", "g">>],
    [group |-> "micronutrients", key |-> "iron", unit |-> "mg",
     label |-> <<"I", "r", "o", "n">>,
     unitText |-> <<"m", "g">>],
    [group |-> "micronutrients", key |-> "potassium", unit |-> "mg",
     label |-> <<"P", "o", "t", "a", "s", "s", "i", "u", "m">>,
     unitText |-> <<"m", "g">>],
    [group |-> "micronutrients", key |-> "sodium", unit |-> "mg",
     label |-> <<"S", "o", "d", "i", "u", "m">>,
     unitText |-> <<"m", "g">>],
    [group |-> "macronutrients", key |-> "protein", unit |-> "g",
     label |-> <<"P", "r", "o", "t", "e", "i", "n">>,
     unitText |-> <<"g">>],
    [group |-> "macronutrients", key |-> "carbs", unit |-> "g",
     label |-> <<"C", "a", "r", "b", "s">>,
     unitText |-> <<"g">>],
    [group |-> "macronutrients", key |-> "fat", unit |-> "g",
     label |-> <<"F", "a", "t">>,
     unitText |-> <<"g">>],
    [group |-> "macronutrients", key |-> "fiber", unit |-> "g",
     label |-> <<"F", "i", "b", "e", "r">>,
     unitText |-> <<"g">> ] >>

\* the zeroed fields with vitamin A in mg, the unit of the line below it
InitialMicronutrientsAllMg ==
    [vitamin_a |-> [value |-> 0, unit |-> "mg", percentage |-> 0],
     vitamin_c |-> [value |-> 0, unit |-> "mg", percentage |-> 0],
     calcium   |-> [value |-> 0, unit |-> "mg", percentage |-> 0],
     iron      |-> [value |-> 0, unit |-> "mg", percentage |-> 0],
     potassium |-> [value |-> 0, unit |-> "mg", percentage |-> 0],
     sodium    |-> [value |-> 0, unit |-> "mg", percentage |-> 0]]

\* const micronutrients = {...}: all six fields zeroed
InitialMicronutrients ==
    [vitamin_a |-> [value |-> 0, unit |-> "mcg", percentage |-> 0],
     vitamin_c |-> [value |-> 0, unit |-> "mg", percentage |-> 0],
     calcium   |-> [value |-> 0, unit |-> "mg", percentage |-> 0],
     iron      |-> [value |-> 0, unit |-> "mg", percentage |-> 0],
     potassium |-> [value |-> 0, unit |-> "mg", percentage |-> 0],
     sodium    |-> [value |-> 0, unit |-> "mg", percentage |-> 0]]

\* const macronutrients = {...}: all four fields zeroed
InitialMacronutrients ==
    [protein |-> [value |-> 0, unit |-> "g", percentage |-> 0],
     carbs   |-> [value |-> 0, unit |-> "g", percentage |-> 0],
     fat     |-> [value |-> 0, unit |-> "g", percentage |-> 0],
     fiber   |-> [value |-> 0, unit |-> "g", percentage |-> 0]]

InitialNutrients ==
    [micronutrients |-> InitialMicronutrients,
     macronutrients |-> InitialMacronutrients]

\* a match added to the field instead of replacing it
ApplyPatternAccumulate(n, pat, step) ==
    LET m == StringMatch(step, pat.label, pat.unitText)
        old == n[pat.group][pat.key]
    IN  IF m # null
        THEN [n EXCEPT ![pat.group][pat.key] =
                 [value |-> old.value + parseInt(m[2]), unit |-> pat.unit,
                  percentage |-> old.percentage + parseInt(m[3])]]
        ELSE n

\* a percentage cut at 100: Math.min(100, parseInt(m[2]))
ApplyPatternClamped(n, pat, step) ==
    LET m == StringMatch(step, pat.label, pat.unitText)
    IN  IF m # null
        THEN [n EXCEPT ![pat.group][pat.key] =
                 [value |-> parseInt(m[2]), unit |-> pat.unit,
                  percentage |-> IF parseInt(m[3]) > 100 THEN 100
                                 ELSE parseInt(m[3])]]
        ELSE n

\* const m = step.match(...); if (m) { field = {value, unit, percentage} }
ApplyPattern(n, pat, step) ==
    LET m == StringMatch(step, pat.label, pat.unitText)
    IN  IF m # null
        THEN [n EXCEPT ![pat.group][pat.key] =
                 [value |-> parseInt(m[2]), unit |-> pat.unit,
                  percentage |-> parseInt(m[3])]]
        ELSE n

\* the body of recipe.steps.forEach: the ten patterns, one after the other
RECURSIVE ApplyPatterns(_, _, _)
ApplyPatterns(n, k, step) ==
    IF k > Len(NutrientPatterns) THEN n
    ELSE ApplyPatterns(ApplyPattern(n, NutrientPatterns[k], step), k + 1, step)

ScanStep(n, step) == ApplyPatterns(n, 1, step)

\* recipe.steps.forEach(step => ...) from the zeroed fields
RECURSIVE ScanSteps(_, _)
ScanSteps(n, ss) ==
    IF Len(ss) = 0 THEN n
    ELSE ScanSteps(ScanStep(n, Head(ss)), Tail(ss))

ExtractNutrients(ss) == ScanSteps(InitialNutrients, ss)

(***************************************************************************)
(* Dates: new Date(created_at), date-fns format and new Date("MMM d 2025") *)
(***************************************************************************)
\* days from 1970-01-01 to the civil date y-m-d (proleptic Gregorian)
DaysFromCivil(y, m, d) ==
    LET yy  == IF m <= 2 THEN y - 1 ELSE y
        era == yy \div 400
        yoe == yy - era * 400
        mp  == IF m > 2 THEN m - 3 ELSE m + 9
        doy == (153 * mp + 2) \div 5 + d - 1
        doe == yoe * 365 + yoe \div 4 - yoe \div 100 + doy
    IN  era * 146097 + doe - 719468

\* the civil date <<y, m, d>> of a day number
CivilFromDays(z0) ==
    LET z   == z0 + 719468
        era == z \div 146097
        doe == z - era * 146097
        yoe == (doe - doe \div 1460 + doe \div 36524 - doe \div 146096) \div 365
        doy == doe - (365 * yoe + yoe \div 4 - yoe \div 100)
        mp  == (5 * doy + 2) \div 153
        d   == doy - (153 * mp + 2) \div 5 + 1
        m   == IF mp < 10 THEN mp + 3 ELSE mp - 9
        y   == yoe + era * 400
    IN  <<IF m <= 2 THEN y + 1 ELSE y, m, d>>

\* new Date(recipe.created_at): the instant, in minutes of local time
NewDate(created_at) ==
    DaysFromCivil(created_at.y, created_at.mo, created_at.d) * 1440
        + created_at.h * 60 + created_at.mi

MonthNames == <<"Jan", "Feb", "Mar", "Apr", "May", "Jun",
                "Jul", "Aug", "Sep", "Oct", "Nov", "Dec">>

\* a day key without its year: format(date, 'MM-dd')
FormatDayKeyNoYear(date) ==
    LET c == CivilFromDays(date \div 1440)
    IN  <<c[2], c[3]>>

\* a key of the month: format(date, 'yyyy-MM')
FormatDayKeyMonth(date) ==
    LET c == CivilFromDays(date \div 1440)
    IN  <<c[1], c[2]>>

\* format(date, 'yyyy-MM-dd')
FormatDayKey(date) == CivilFromDays(date \div 1440)

\* format(date, 'MMM d')
FormatDay(date) ==
    LET c == CivilFromDays(date \div 1440)
    IN  [month |-> MonthNames[c[2]], d |-> c[3]]

\* format(date, 'h:mm a')
FormatTime(date) ==
    LET hh == (date % 1440) \div 60
    IN  [h  |-> IF hh % 12 = 0 THEN 12 ELSE hh % 12,
         mm |-> date % 60,
         a  |-> IF hh < 12 THEN "AM" ELSE "PM"]

\* new Date(`${day} 2025`).getTime(): the label read back with the year 2025
ParseDayLabel(day) ==
    LET m == CHOOSE k \in 1..12 : MonthNames[k] = day.month
    IN  DaysFromCivil(2025, m, day.d) * 1440

(***************************************************************************)
(* The pipeline of fetchNutrientData.  dailyData, a Map, is the sequence   *)
(* of its entries in insertion order.                                      *)
(***************************************************************************)
\* a check that also accepts a positive percentage
hasNutrientDataOrPercentage(n) ==
    \E k \in 1..Len(NutrientPatterns) :
        LET field == n[NutrientPatterns[k].group][NutrientPatterns[k].key]
        IN  field.value > 0 \/ field.percentage > 0

\* const hasNutrientData = ... (the ten values; percentages are not read)
hasNutrientData(n) ==
    \/ n.micronutrients.vitamin_a.value > 0
    \/ n.micronutrients.vitamin_c.value > 0
    \/ n.micronutrients.calcium.value > 0
    \/ n.micronutrients.iron.value > 0
    \/ n.micronutrients.potassium.value > 0
    \/ n.micronutrients.sodium.value > 0
    \/ n.macronutrients.protein.value > 0
    \/ n.macronutrients.carbs.value > 0
    \/ n.macronutrients.fat.value > 0
    \/ n.macronutrients.fiber.value > 0

\* !recipe.steps || recipe.steps.length === 0
HasNoSteps(recipe) == "steps" \notin DOMAIN recipe \/ Len(recipe.steps) = 0

MapHas(dailyData, dayKey) == \E i \in 1..Len(dailyData) : dailyData[i].key = dayKey

\* a meal put in front of the day's meals: meals.unshift(meal)
MapUnshiftMeal(dailyData, dayKey, meal) ==
    [i \in 1..Len(dailyData) |->
        IF dailyData[i].key = dayKey
        THEN [dailyData[i] EXCEPT !.value.meals = <<meal>> \o @]
        ELSE dailyData[i]]

\* dailyData.get(dayKey)?.meals.push(meal)
MapPushMeal(dailyData, dayKey, meal) ==
    [i \in 1..Len(dailyData) |->
        IF dailyData[i].key = dayKey
        THEN [dailyData[i] EXCEPT !.value.meals = Append(@, meal)]
        ELSE dailyData[i]]

\* the body of recipesData.forEach
ProcessRecipe(dailyData, recipe) ==
    IF HasNoSteps(recipe) THEN dailyData
    ELSE LET n == ExtractNutrients(recipe.steps)
         IN  IF ~hasNutrientData(n) THEN dailyData
             ELSE LET date   == NewDate(recipe.created_at)
                      dayKey == FormatDayKey(date)
                      withDay ==
                          IF ~MapHas(dailyData, dayKey)
                          THEN Append(dailyData,
                                   [key |-> dayKey,
                                    value |-> [day |-> FormatDay(date),
                                               averageData |-> n,
                                               meals |-> <<>>]])
                          ELSE dailyData
                      meal == [id |-> recipe.id,
                               timestamp |-> FormatTime(date),
                               micronutrients |-> n.micronutrients,
                               macronutrients |-> n.macronutrients]
                  IN  MapPushMeal(withDay, dayKey, meal)

\* a loop that is left at the first recipe without steps
RECURSIVE ProcessRecipesUntilNoSteps(_, _)
ProcessRecipesUntilNoSteps(dailyData, recipesData) ==
    IF Len(recipesData) = 0 \/ HasNoSteps(Head(recipesData)) THEN dailyData
    ELSE ProcessRecipesUntilNoSteps(ProcessRecipe(dailyData, Head(recipesData)),
                                    Tail(recipesData))

\* recipesData.forEach(recipe => ...)
RECURSIVE ProcessRecipes(_, _)
ProcessRecipes(dailyData, recipesData) ==
    IF Len(recipesData) = 0 THEN dailyData
    ELSE ProcessRecipes(ProcessRecipe(dailyData, Head(recipesData)),
                        Tail(recipesData))

\* days built without their first meal: meals: dayData.meals.slice(1)
RECURSIVE BuildHistoryRestMeals(_)
BuildHistoryRestMeals(dailyData) ==
    IF Len(dailyData) = 0 THEN <<>>
    ELSE LET dayData == Head(dailyData).value
         IN  (IF Len(dayData.meals) > 0
              THEN << [day |-> dayData.day,
                       averageData |->
                           [micronutrients |-> dayData.meals[1].micronutrients,
                            macronutrients |-> dayData.meals[1].macronutrients],
                       meals |-> Tail(dayData.meals)] >>
              ELSE <<>>) \o BuildHistoryRestMeals(Tail(dailyData))

\* averageData taken from the last meal of the day
RECURSIVE BuildHistoryLastMeal(_)
BuildHistoryLastMeal(dailyData) ==
    IF Len(dailyData) = 0 THEN <<>>
    ELSE LET dayData == Head(dailyData).value
             last    == Len(dayData.meals)
         IN  (IF Len(dayData.meals) > 0
              THEN << [day |-> dayData.day,
                       averageData |->
                           [micronutrients |-> dayData.meals[last].micronutrients,
                            macronutrients |-> dayData.meals[last].macronutrients],
                       meals |-> dayData.meals] >>
              ELSE <<>>) \o BuildHistoryLastMeal(Tail(dailyData))

\* dailyData.forEach(dayData => { if (dayData.meals.length > 0) push(...) })
RECURSIVE BuildHistory(_)
BuildHistory(dailyData) ==
    IF Len(dailyData) = 0 THEN <<>>
    ELSE LET dayData == Head(dailyData).value
         IN  (IF Len(dayData.meals) > 0
              THEN << [day |-> dayData.day,
                       averageData |->
                           [micronutrients |-> dayData.meals[1].micronutrients,
                            macronutrients |-> dayData.meals[1].macronutrients],
                       meals |-> dayData.meals] >>
              ELSE <<>>) \o BuildHistory(Tail(dailyData))

\* the comparator of the sort: dateB.getTime() - dateA.getTime()
CompareDays(a, b) == ParseDayLabel(b.day) - ParseDayLabel(a.day)

\* one insertion of the stable sort: x goes before the first element that
\* the comparator puts after it
RECURSIVE SortInsert(_, _)
SortInsert(sorted, x) ==
    IF Len(sorted) = 0 THEN <<x>>
    ELSE IF CompareDays(Head(sorted), x) > 0
         THEN <<x>> \o sorted
         ELSE <<Head(sorted)>> \o SortInsert(Tail(sorted), x)

\* nutrientHistoryData.sort(...): Array.prototype.sort is stable
RECURSIVE SortFrom(_, _)
SortFrom(sorted, rest) ==
    IF Len(rest) = 0 THEN sorted
    ELSE SortFrom(SortInsert(sorted, Head(rest)), Tail(rest))

SortHistory(nutrientHistoryData) == SortFrom(<<>>, nutrientHistoryData)

\* lines 96-292: the list handed to setNutrientHistory for a non-empty fetch
ProcessedHistory(data) ==
    SortHistory(BuildHistory(ProcessRecipes(<<>>, data)))

(***************************************************************************)
(* Step texts                                                              *)
(***************************************************************************)
\* the decimal digits of a natural number
RECURSIVE Decimal(_)
Decimal(n) ==
    IF n < 10 THEN <<DigitChars[n + 1]>>
    ELSE Decimal(n \div 10) \o <<DigitChars[(n % 10) + 1]>>

\* the text "<Label>: <v><unit> (<p>%)" of nutrient pattern k
WellFormedStep(k, v, p) ==
    NutrientPatterns[k].label \o <<":", " ">> \o Decimal(v)
        \o NutrientPatterns[k].unitText \o <<" ", "(">> \o Decimal(p) \o <<"%", ")">>

\* the same text with its label in lower case
LowerLabelStep(k, v, p) ==
    ToLowerCase(NutrientPatterns[k].label) \o <<":", " ">> \o Decimal(v)
        \o NutrientPatterns[k].unitText \o <<" ", "(">> \o Decimal(p) \o <<"%", ")">>

\* the well-formed steps of the model: nutrient, value, percentage, label case
WellFormedCases ==
    {[k |-> k, v |-> 25, p |-> 40, lower |-> FALSE] : k \in 1..Len(NutrientPatterns)}
    \cup {[k |-> k, v |-> 25, p |-> 40, lower |-> TRUE] : k \in {1, 4, 7, 9}}
    \cup {[k |-> 7, v |-> 10, p |-> 10, lower |-> FALSE],
          [k |-> 7, v |-> 20, p |-> 20, lower |-> FALSE],
          [k |-> 1, v |-> 300, p |-> 33, lower |-> FALSE],
          [k |-> 9, v |-> 0, p |-> 5, lower |-> FALSE]}

StepOfCase(c) ==
    IF c.lower THEN LowerLabelStep(c.k, c.v, c.p) ELSE WellFormedStep(c.k, c.v, c.p)

MixWell == <<"M", "i", "x", " ", "w", "e", "l", "l">>

\* "Protein: 25g": no percentage
ProteinNoPercentage ==
    <<"P", "r", "o", "t", "e", "i", "n", ":", " ", "2", "5", "g">>

\* "Protein: 2.5g (40%)": the value is not an integer
ProteinDecimalValue ==
    <<"P", "r", "o", "t", "e", "i", "n", ":", " ", "2", ".", "5", "g", " ",
      "(", "4", "0", "%", ")">>

\* "Protein: 25mg (40%)": a unit that is not the unit of protein
ProteinOtherUnit ==
    <<"P", "r", "o", "t", "e", "i", "n", ":", " ", "2", "5", "m", "g", " ",
      "(", "4", "0", "%", ")">>

\* "Vitamin A: 300mg (33%)": a unit that is not the unit of vitamin A
VitaminAOtherUnit ==
    <<"V", "i", "t", "a", "m", "i", "n", " ", "A", ":", " ", "3", "0", "0",
      "m", "g", " ", "(", "3", "3", "%", ")">>

\* "Protein: -5g (40%)": a sign before the value
ProteinNegativeValue ==
    <<"P", "r", "o", "t", "e", "i", "n", ":", " ", "-", "5", "g", " ",
      "(", "4", "0", "%", ")">>

\* steps in which a label is present and the rest of the pattern is not,
\* and steps that carry more than one annotation
OtherSteps ==
    { MixWell, ProteinNoPercentage, ProteinDecimalValue, ProteinOtherUnit,
      VitaminAOtherUnit, ProteinNegativeValue,
      \* "Protein: 10g (10%) Protein: 20g (20%)"
      WellFormedStep(7, 10, 10) \o <<" ">> \o WellFormedStep(7, 20, 20),
      \* "Carbs: 30g (10%), Fat: 5g (7%)"
      WellFormedStep(8, 30, 10) \o <<",", " ">> \o WellFormedStep(9, 5, 7),
      \* "Iron: 150mg (250%)"
      WellFormedStep(4, 150, 250),
      \* "FIBER: 8G (30%)"
      <<"F", "I", "B", "E", "R", ":", " ", "8", "G", " ", "(", "3", "0", "%", ")">> }

StepTexts == {StepOfCase(c) : c \in WellFormedCases} \cup OtherSteps

StepLists == UNION {[1..n -> StepTexts] : n \in 0..MaxSteps}

(***************************************************************************)
(* Rows of the recipes table                                               *)
(***************************************************************************)
\* created_at of the rows, one per slot; slot 5 has the month and day of
\* slot 1 in the year before
CreatedAt == <<
    [y |-> 2025, mo |-> 1,  d |-> 3,  h |-> 10, mi |-> 5],
    [y |-> 2025, mo |-> 1,  d |-> 1,  h |-> 18, mi |-> 30],
    [y |-> 2025, mo |-> 1,  d |-> 1,  h |-> 8,  mi |-> 0],
    [y |-> 2024, mo |-> 12, d |-> 31, h |-> 12, mi |-> 0],
    [y |-> 2024, mo |-> 1,  d |-> 3,  h |-> 9,  mi |-> 45] >>

\* id of the row of each slot
RecipeIds == <<"c", "a", "e", "b", "d">>

Slots == 1..Len(CreatedAt)

\* the steps column of a row: absent, or a list of texts
StepsOptions ==
    { [has |-> FALSE],
      [has |-> TRUE, steps |-> <<>>],
      [has |-> TRUE, steps |-> <<MixWell>>],
      [has |-> TRUE, steps |-> <<WellFormedStep(9, 0, 5)>>],
      [has |-> TRUE, steps |-> <<WellFormedStep(7, 25, 40)>>],
      [has |-> TRUE, steps |-> <<MixWell, WellFormedStep(1, 300, 33)>>] }

Row(slot, opt) ==
    IF opt.has
    THEN [id |-> RecipeIds[slot], created_at |-> CreatedAt[slot], steps |-> opt.steps]
    ELSE [id |-> RecipeIds[slot], created_at |-> CreatedAt[slot]]

\* the tables of at most MaxRecipes rows
Tables ==
    UNION { { {Row(k, f[k]) : k \in K} : f \in [K -> StepsOptions] } :
            K \in {K \in SUBSET Slots : Cardinality(K) <= MaxRecipes} }

\* the contents the watched row of the view's table goes through
WatchedRows ==
    { Row(1, [has |-> TRUE, steps |-> <<WellFormedStep(9, 5, 7)>>]),
      Row(1, [has |-> TRUE, steps |-> <<WellFormedStep(4, 9, 50)>>]) }

\* supabase.from('recipes').select('*').order('created_at', {ascending: false})
RECURSIVE SelectRecipes(_)
SelectRecipes(table) ==
    IF table = {} THEN <<>>
    ELSE LET newest == CHOOSE r \in table :
                           \A q \in table : NewDate(q.created_at) <= NewDate(r.created_at)
         IN  <<newest>> \o SelectRecipes(table \ {newest})

(***************************************************************************)
(* The view: state after construction                                      *)
(***************************************************************************)
NoUser == "none"

Users == {NoUser, "user-1"}

\* the route renders the view; navigate and the navigation bar leave it
Mounted == location = "view"

\* the tables made of watched rows, one row per id
WatchedTables ==
    {t \in SUBSET WatchedRows : \A r, q \in t : r.id = q.id => r = q}

\* the state of MicronutrientTracking before its first render
TrackingConstructed ==
    /\ refreshKey = 0
    /\ cameraDialogOpen = FALSE
    /\ nutrientHistory = <<>>
    /\ effectDeps = <<>>
    /\ channels = 0
    /\ pendingEvents = 0
    /\ requests = <<>>
    /\ rejected = FALSE
    /\ lastRecipesData = <<>>
    /\ lastRun = "none"
    /\ overtaken = 0
    /\ lastOvertaken = FALSE
    /\ lastRepeated = FALSE

\* Goals: the fields of userGoal that enable controls; activityLevel and
\* dietaryRestrictions only enter the text sent to the service
InitialUserGoal ==
    [goalType |-> "", currentWeight |-> <<>>, targetWeight |-> <<>>,
     timeframe |-> <<>>, age |-> <<>>, height |-> <<>>, mealsPerDay |-> <<"3">>]

\* no call of handleNextStep or handlePreviousStep is on record
NoStepCall == [handler |-> "none"]

GoalsConstructed ==
    /\ currentStep = "goal-selection"
    /\ userGoal = InitialUserGoal
    /\ calorieResults = null
    /\ mealPlan = null
    /\ savedGoalId = null
    /\ calculating = FALSE
    /\ generatingMealPlan = FALSE
    /\ goalFetch = "idle"
    /\ submitCall = "idle"
    /\ generateCall = "idle"
    /\ stepCall = NoStepCall
    /\ called = FALSE

IdleRequest == [state |-> "idle", outcome |-> "none"]

IndexConstructed ==
    /\ isLoading = FALSE
    /\ file = null
    /\ previewUrl = null
    /\ recipeData = null
    /\ showFlashcards = FALSE
    /\ modalCardIndex = 0
    /\ fileReads = 0
    /\ submitRequest = IdleRequest
    /\ cardAction = "none"

\* the pages other than MicronutrientTracking are not on screen
PagesIdle ==
    /\ GoalsConstructed
    /\ recipeCards = <<>>
    /\ currentCardIndex = 0
    /\ IndexConstructed

ViewConstructed ==
    /\ location = "view"
    /\ loading = TRUE
    /\ TrackingConstructed
    /\ PagesIdle

ExtractIdle ==
    /\ steps = <<>>
    /\ micronutrients = InitialMicronutrients
    /\ macronutrients = InitialMacronutrients
    /\ scanned = FALSE

Init ==
    /\ user \in Users
    /\ recipes \in WatchedTables
    /\ ViewConstructed
    /\ ExtractIdle

(***************************************************************************)
(* fetchNutrientData up to its await                                       *)
(***************************************************************************)
\* n calls of the fetchNutrientData of the render whose user is closureUser:
\* setLoading(true) and the query is sent
CallFetchNutrientData(closureUser, n) ==
    IF closureUser = NoUser \/ n = 0
    THEN UNCHANGED <<loading, requests>>
    ELSE /\ loading' = TRUE
         /\ requests' = requests \o [i \in 1..n |-> [state |-> "sent"]]

\* an effect without its dependency array: it runs after every render
RunEffectEveryRender ==
    LET subscribed == effectDeps # <<>> /\ effectDeps[1] # NoUser
        remaining  == IF subscribed THEN channels - 1 ELSE channels
    IN  /\ Mounted
        /\ user # NoUser => Len(requests) < MaxInFlight
        /\ effectDeps' = <<user, refreshKey>>
        /\ pendingEvents' = IF subscribed THEN 0 ELSE pendingEvents
        /\ IF user = NoUser
           THEN /\ location' = "/auth"
                /\ channels' = remaining
                /\ UNCHANGED <<loading, requests>>
           ELSE /\ CallFetchNutrientData(user, 1)
                /\ channels' = remaining + 1
                /\ UNCHANGED location
        /\ UNCHANGED <<user, recipes, refreshKey, cameraDialogOpen, nutrientHistory,
                       rejected, lastRecipesData, lastRun, orderVars, extractVars, pagesVars>>

\* an effect that navigates without returning: it goes on to the fetch and
\* the subscription
RunEffectNoReturn ==
    LET subscribed == effectDeps # <<>>
        remaining  == IF subscribed THEN channels - 1 ELSE channels
    IN  /\ Mounted
        /\ effectDeps # <<user, refreshKey>>
        /\ user # NoUser => Len(requests) < MaxInFlight
        /\ effectDeps' = <<user, refreshKey>>
        /\ pendingEvents' = IF subscribed THEN 0 ELSE pendingEvents
        /\ location' = IF user = NoUser THEN "/auth" ELSE location
        /\ CallFetchNutrientData(user, 1)
        /\ channels' = remaining + 1
        /\ UNCHANGED <<user, recipes, refreshKey, cameraDialogOpen, nutrientHistory,
                       rejected, lastRecipesData, lastRun, orderVars, extractVars, pagesVars>>

\* an effect that returns no cleanup: the channel of the previous run stays
RunEffectNoCleanup ==
    /\ Mounted
    /\ effectDeps # <<user, refreshKey>>
    /\ user # NoUser => Len(requests) < MaxInFlight
    /\ effectDeps' = <<user, refreshKey>>
    /\ UNCHANGED pendingEvents
    /\ IF user = NoUser
       THEN /\ location' = "/auth"
            /\ UNCHANGED <<channels, loading, requests>>
       ELSE /\ CallFetchNutrientData(user, 1)
            /\ channels' = channels + 1
            /\ UNCHANGED location
    /\ UNCHANGED <<user, recipes, refreshKey, cameraDialogOpen, nutrientHistory,
                   rejected, lastRecipesData, lastRun, orderVars, extractVars, pagesVars>>

\* the effect: cleanup of the previous run, then its body
RunEffect ==
    LET subscribed == effectDeps # <<>> /\ effectDeps[1] # NoUser
        remaining  == IF subscribed THEN channels - 1 ELSE channels
    IN  /\ Mounted
        /\ effectDeps # <<user, refreshKey>>
        /\ user # NoUser => Len(requests) < MaxInFlight
        /\ effectDeps' = <<user, refreshKey>>
        /\ pendingEvents' = IF subscribed THEN 0 ELSE pendingEvents
        /\ IF user = NoUser
           THEN /\ location' = "/auth"
                /\ channels' = remaining
                /\ UNCHANGED <<loading, requests>>
           ELSE /\ CallFetchNutrientData(user, 1)
                /\ channels' = remaining + 1
                /\ UNCHANGED location
        /\ UNCHANGED <<user, recipes, refreshKey, cameraDialogOpen, nutrientHistory,
                       rejected, lastRecipesData, lastRun, orderVars, extractVars, pagesVars>>

\* handleScanSuccess: setRefreshKey(prev => prev + 1)
HandleScanSuccess ==
    /\ Mounted
    /\ refreshKey < MaxRefresh
    /\ refreshKey' = refreshKey + 1
    /\ UNCHANGED <<user, location, recipes, loading, cameraDialogOpen,
                   nutrientHistory, effectDeps, channels, pendingEvents, requests,
                   rejected, lastRecipesData, lastRun, orderVars, extractVars, pagesVars>>

\* setCameraDialogOpen(open): the Scan Food buttons and the dialog's onOpenChange
SetCameraDialogOpen(open) ==
    /\ Mounted
    /\ cameraDialogOpen # open
    /\ cameraDialogOpen' = open
    /\ UNCHANGED <<user, location, recipes, loading, refreshKey,
                   nutrientHistory, effectDeps, channels, pendingEvents, requests,
                   rejected, lastRecipesData, lastRun, orderVars, extractVars, pagesVars>>

\* the user of the auth context changes: sign-in or sign-out
SetUser(u) ==
    /\ Mounted
    /\ user # u
    /\ user' = u
    /\ UNCHANGED <<location, recipes, loading, refreshKey, cameraDialogOpen,
                   nutrientHistory, effectDeps, channels, pendingEvents, requests,
                   rejected, lastRecipesData, lastRun, orderVars, extractVars, pagesVars>>

\* the view is left for another route: the cleanup of the last run of the
\* effect removes its channel
Unmount ==
    LET subscribed == effectDeps # <<>> /\ effectDeps[1] # NoUser
    IN  /\ Mounted
        /\ location' = "elsewhere"
        /\ channels' = IF subscribed THEN channels - 1 ELSE channels
        /\ pendingEvents' = IF subscribed THEN 0 ELSE pendingEvents
        /\ UNCHANGED <<user, recipes, loading, refreshKey, cameraDialogOpen,
                       nutrientHistory, effectDeps, requests,
                       rejected, lastRecipesData, lastRun, orderVars, extractVars, pagesVars>>

(***************************************************************************)
(* The recipes table and its change events                                 *)
(***************************************************************************)
\* a change of the table is published to the subscribed channel
PublishChange ==
    IF channels > 0
    THEN pendingEvents < MaxPending /\ pendingEvents' = pendingEvents + 1
    ELSE UNCHANGED pendingEvents

TableFrame ==
    UNCHANGED <<user, location, loading, refreshKey, cameraDialogOpen,
                nutrientHistory, effectDeps, channels, requests,
                rejected, lastRecipesData, lastRun, orderVars, extractVars, pagesVars>>

InsertRecipe(row) ==
    /\ \A r \in recipes : r.id # row.id
    /\ recipes' = recipes \cup {row}
    /\ PublishChange
    /\ TableFrame

UpdateRecipe(old, new) ==
    /\ old \in recipes
    /\ new.id = old.id
    /\ new # old
    /\ recipes' = (recipes \ {old}) \cup {new}
    /\ PublishChange
    /\ TableFrame

DeleteRecipe(row) ==
    /\ row \in recipes
    /\ recipes' = recipes \ {row}
    /\ PublishChange
    /\ TableFrame

\* event: '*': the event types the subscription receives
EventTypes == {"INSERT", "UPDATE", "DELETE"}

\* a callback that refreshes on new rows only
DeliverEventInsertOnly(payload) ==
    /\ Mounted
    /\ pendingEvents > 0
    /\ channels > 0
    /\ Len(requests) + channels <= MaxInFlight
    /\ pendingEvents' = pendingEvents - 1
    /\ IF payload = "INSERT"
       THEN CallFetchNutrientData(effectDeps[1], channels)
       ELSE UNCHANGED <<loading, requests>>
    /\ UNCHANGED <<user, location, recipes, refreshKey, cameraDialogOpen,
                   nutrientHistory, effectDeps, channels,
                   rejected, lastRecipesData, lastRun, orderVars, extractVars, pagesVars>>

\* the postgres_changes callback of each subscribed channel, called with the
\* payload of one change: it logs the payload and calls the fetchNutrientData
\* of the render the effect ran in
DeliverEvent(payload) ==
    /\ Mounted
    /\ pendingEvents > 0
    /\ channels > 0
    /\ Len(requests) + channels <= MaxInFlight
    /\ pendingEvents' = pendingEvents - 1
    /\ CallFetchNutrientData(effectDeps[1], channels)
    /\ UNCHANGED <<user, location, recipes, refreshKey, cameraDialogOpen,
                   nutrientHistory, effectDeps, channels,
                   rejected, lastRecipesData, lastRun, orderVars, extractVars, pagesVars>>

(***************************************************************************)
(* The answer of the store and the rest of fetchNutrientData               *)
(***************************************************************************)
\* the store executes the query of request i on the rows it holds now
ServerRead(i) ==
    /\ i \in 1..Len(requests)
    /\ requests[i].state = "sent"
    /\ requests' = [requests EXCEPT ![i] = [state |-> "read", data |-> SelectRecipes(recipes)]]
    /\ UNCHANGED <<user, location, recipes, loading, refreshKey, cameraDialogOpen,
                   nutrientHistory, effectDeps, channels, pendingEvents,
                   rejected, lastRecipesData, lastRun, orderVars, extractVars, pagesVars>>

\* what the await of a request can resolve to: an error at any time, and
\* once the store has executed the query its rows, or no data
Responses(request) ==
    IF request.state = "sent"
    THEN { [error |-> TRUE] }
    ELSE { [error |-> TRUE],
           [error |-> FALSE],
           [error |-> FALSE, data |-> request.data] }

AllResponses == UNION {Responses(requests[i]) : i \in 1..Len(requests)}

RemoveAt(seq, i) == SubSeq(seq, 1, i - 1) \o SubSeq(seq, i + 1, Len(seq))

\* the value of nutrientHistory after a run that fetched data without an error
RunOutput(data) ==
    IF Len(data) = 0 THEN <<>> ELSE ProcessedHistory(data)

\* setLoading(false) at the end of the try block instead of in finally
ResumeFetchNoFinally(i, response) ==
    /\ i \in 1..Len(requests)
    /\ response \in Responses(requests[i])
    /\ requests' = RemoveAt(requests, i)
    /\ IF response.error
       THEN /\ lastRun' = "error"
            /\ UNCHANGED <<nutrientHistory, lastRecipesData, loading>>
       ELSE IF "data" \notin DOMAIN response
       THEN /\ nutrientHistory' = <<>>
            /\ lastRecipesData' = <<>>
            /\ lastRun' = "empty"
            /\ loading' = FALSE
       ELSE /\ nutrientHistory' = RunOutput(response.data)
            /\ lastRecipesData' = response.data
            /\ lastRun' = IF Len(response.data) = 0 THEN "empty" ELSE "data"
            /\ loading' = FALSE
    /\ rejected' = rejected
    /\ UNCHANGED <<user, location, recipes, refreshKey, cameraDialogOpen,
                   effectDeps, channels, pendingEvents, extractVars, pagesVars>>

\* the new days appended to the held ones: setNutrientHistory(prev => [...prev, ...data])
ResumeFetchMerge(i, response) ==
    /\ i \in 1..Len(requests)
    /\ response \in Responses(requests[i])
    /\ requests' = RemoveAt(requests, i)
    /\ IF response.error
       THEN /\ lastRun' = "error"
            /\ UNCHANGED <<nutrientHistory, lastRecipesData>>
       ELSE IF "data" \notin DOMAIN response
       THEN /\ nutrientHistory' = <<>>
            /\ lastRecipesData' = <<>>
            /\ lastRun' = "empty"
       ELSE /\ nutrientHistory' = nutrientHistory \o RunOutput(response.data)
            /\ lastRecipesData' = response.data
            /\ lastRun' = IF Len(response.data) = 0 THEN "empty" ELSE "data"
    /\ loading' = FALSE
    /\ rejected' = rejected
    /\ UNCHANGED <<user, location, recipes, refreshKey, cameraDialogOpen,
                   effectDeps, channels, pendingEvents, extractVars, pagesVars>>

\* a catch block that calls fetchNutrientData again
ResumeFetchRetry(i, response) ==
    /\ i \in 1..Len(requests)
    /\ response \in Responses(requests[i])
    /\ IF response.error
       THEN /\ requests' = Append(RemoveAt(requests, i), [state |-> "sent"])
            /\ lastRun' = "error"
            /\ UNCHANGED <<nutrientHistory, lastRecipesData>>
       ELSE IF "data" \notin DOMAIN response
       THEN /\ requests' = RemoveAt(requests, i)
            /\ nutrientHistory' = <<>>
            /\ lastRecipesData' = <<>>
            /\ lastRun' = "empty"
       ELSE /\ requests' = RemoveAt(requests, i)
            /\ nutrientHistory' = RunOutput(response.data)
            /\ lastRecipesData' = response.data
            /\ lastRun' = IF Len(response.data) = 0 THEN "empty" ELSE "data"
    /\ loading' = FALSE
    /\ rejected' = rejected
    /\ UNCHANGED <<user, location, recipes, refreshKey, cameraDialogOpen,
                   effectDeps, channels, pendingEvents, extractVars, pagesVars>>

\* dailyData kept between the runs: the Map is created once, outside
\* fetchNutrientData
ResumeFetchSharedMap(i, response) ==
    /\ i \in 1..Len(requests)
    /\ response \in Responses(requests[i])
    /\ requests' = RemoveAt(requests, i)
    /\ IF response.error
       THEN /\ lastRun' = "error"
            /\ UNCHANGED <<nutrientHistory, lastRecipesData>>
       ELSE IF "data" \notin DOMAIN response
       THEN /\ nutrientHistory' = <<>>
            /\ lastRecipesData' = <<>>
            /\ lastRun' = "empty"
       ELSE /\ nutrientHistory' =
                   IF Len(response.data) = 0 THEN <<>>
                   ELSE SortHistory(BuildHistory(
                            ProcessRecipes(ProcessRecipes(<<>>, lastRecipesData),
                                           response.data)))
            /\ lastRecipesData' = response.data
            /\ lastRun' = IF Len(response.data) = 0 THEN "empty" ELSE "data"
    /\ loading' = FALSE
    /\ rejected' = rejected
    /\ UNCHANGED <<user, location, recipes, refreshKey, cameraDialogOpen,
                   effectDeps, channels, pendingEvents, extractVars, pagesVars>>

\* a run identifier: the result of a run is dropped when a run triggered
\* after it is suspended
ResumeFetchDropStale(i, response) ==
    /\ i \in 1..Len(requests)
    /\ response \in Responses(requests[i])
    /\ requests' = RemoveAt(requests, i)
    /\ IF response.error
       THEN /\ lastRun' = "error"
            /\ UNCHANGED <<nutrientHistory, lastRecipesData>>
       ELSE IF i < Len(requests)
       THEN /\ lastRun' = lastRun
            /\ UNCHANGED <<nutrientHistory, lastRecipesData>>
       ELSE IF "data" \notin DOMAIN response
       THEN /\ nutrientHistory' = <<>>
            /\ lastRecipesData' = <<>>
            /\ lastRun' = "empty"
       ELSE /\ nutrientHistory' = RunOutput(response.data)
            /\ lastRecipesData' = response.data
            /\ lastRun' = IF Len(response.data) = 0 THEN "empty" ELSE "data"
    /\ loading' = FALSE
    /\ rejected' = rejected
    /\ UNCHANGED <<user, location, recipes, refreshKey, cameraDialogOpen,
                   effectDeps, channels, pendingEvents, extractVars, pagesVars>>

\* a run that deletes from the store the rows it has processed
ResumeFetchConsume(i, response) ==
    /\ i \in 1..Len(requests)
    /\ response \in Responses(requests[i])
    /\ requests' = RemoveAt(requests, i)
    /\ IF response.error
       THEN /\ lastRun' = "error"
            /\ UNCHANGED <<nutrientHistory, lastRecipesData, recipes, pendingEvents>>
       ELSE IF "data" \notin DOMAIN response
       THEN /\ nutrientHistory' = <<>>
            /\ lastRecipesData' = <<>>
            /\ lastRun' = "empty"
            /\ UNCHANGED <<recipes, pendingEvents>>
       ELSE /\ nutrientHistory' = RunOutput(response.data)
            /\ lastRecipesData' = response.data
            /\ lastRun' = IF Len(response.data) = 0 THEN "empty" ELSE "data"
            /\ recipes' = recipes \ {response.data[k] : k \in 1..Len(response.data)}
            /\ UNCHANGED pendingEvents
    /\ loading' = FALSE
    /\ rejected' = rejected
    /\ UNCHANGED <<user, location, refreshKey, cameraDialogOpen,
                   effectDeps, channels, extractVars, pagesVars>>

\* fetchNutrientData after its await, lines 83-310, for what the await of
\* request i resolved to
ResumeFetch(i, response) ==
    /\ i \in 1..Len(requests)
    /\ response \in Responses(requests[i])
    /\ requests' = RemoveAt(requests, i)
    /\ IF response.error
       THEN \* throw error; catch logs it
            /\ lastRun' = "error"
            /\ UNCHANGED <<nutrientHistory, lastRecipesData>>
       ELSE IF "data" \notin DOMAIN response
       THEN \* !recipesData
            /\ nutrientHistory' = <<>>
            /\ lastRecipesData' = <<>>
            /\ lastRun' = "empty"
       ELSE /\ nutrientHistory' = RunOutput(response.data)
            /\ lastRecipesData' = response.data
            /\ lastRun' = IF Len(response.data) = 0 THEN "empty" ELSE "data"
    \* finally
    /\ loading' = FALSE
    /\ rejected' = rejected
    /\ UNCHANGED <<user, location, recipes, refreshKey, cameraDialogOpen,
                   effectDeps, channels, pendingEvents, extractVars, pagesVars>>

Next ==
    \/ RunEffect
    \/ HandleScanSuccess
    \/ \E open \in BOOLEAN : SetCameraDialogOpen(open)
    \/ \E row \in WatchedRows : InsertRecipe(row)
    \/ \E old, new \in WatchedRows : UpdateRecipe(old, new)
    \/ \E row \in WatchedRows : DeleteRecipe(row)
    \/ \E payload \in EventTypes : DeliverEvent(payload)
    \/ \E i \in 1..MaxInFlight : ServerRead(i)
    \/ \E i \in 1..MaxInFlight, response \in AllResponses :
           ResumeFetch(i, response) /\ UNCHANGED orderVars

Spec == Init /\ [][Next]_vars

(***************************************************************************)
(* The pipeline as a function of the fetched table: every table of at      *)
(* most MaxRecipes rows, one activation of the view                        *)
(***************************************************************************)
PipelineInit ==
    /\ user = "user-1"
    /\ recipes \in Tables
    /\ ViewConstructed
    /\ ExtractIdle

PipelineNext ==
    \/ RunEffect
    \/ \E i \in 1..MaxInFlight : ServerRead(i)
    \/ \E i \in 1..MaxInFlight, response \in AllResponses :
           ResumeFetch(i, response) /\ UNCHANGED orderVars

PipelineSpec == PipelineInit /\ [][PipelineNext]_vars

(***************************************************************************)
(* Overlapping runs: the view of a signed-in user with the order in which  *)
(* its runs were triggered and finished kept on record                     *)
(***************************************************************************)
OverlapInit ==
    /\ user = "user-1"
    /\ recipes \in WatchedTables
    /\ ViewConstructed
    /\ ExtractIdle

\* the record of the order, when run i finishes: the runs triggered before a
\* run that finished without an error have been overtaken
RecordOrder(i, response) ==
    /\ lastOvertaken' = (i <= overtaken)
    /\ overtaken' = IF i <= overtaken THEN overtaken - 1
                    ELSE IF response.error THEN overtaken
                    ELSE i - 1
    /\ lastRepeated' = /\ ~response.error
                       /\ "data" \in DOMAIN response
                       /\ nutrientHistory # <<>>
                       /\ response.data = lastRecipesData

OverlapNext ==
    \/ RunEffect
    \/ \E row \in WatchedRows : InsertRecipe(row)
    \/ \E old, new \in WatchedRows : UpdateRecipe(old, new)
    \/ \E row \in WatchedRows : DeleteRecipe(row)
    \/ \E payload \in EventTypes : DeliverEvent(payload)
    \/ \E i \in 1..MaxInFlight : ServerRead(i)
    \/ \E i \in 1..MaxInFlight, response \in AllResponses :
           ResumeFetch(i, response) /\ RecordOrder(i, response)

OverlapSpec == OverlapInit /\ [][OverlapNext]_vars

(***************************************************************************)
(* The life of the view: the user signs in and out, the view is left       *)
(***************************************************************************)
LifecycleInit ==
    /\ user \in Users
    /\ recipes \in WatchedTables
    /\ ViewConstructed
    /\ ExtractIdle

LifecycleNext ==
    \/ RunEffect
    \/ HandleScanSuccess
    \/ \E u \in Users : SetUser(u)
    \/ Unmount
    \/ \E row \in WatchedRows : InsertRecipe(row)
    \/ \E old, new \in WatchedRows : UpdateRecipe(old, new)
    \/ \E row \in WatchedRows : DeleteRecipe(row)
    \/ \E payload \in EventTypes : DeliverEvent(payload)
    \/ \E i \in 1..MaxInFlight : ServerRead(i)
    \/ \E i \in 1..MaxInFlight, response \in AllResponses :
           ResumeFetch(i, response) /\ UNCHANGED orderVars

LifecycleSpec == LifecycleInit /\ [][LifecycleNext]_vars

(***************************************************************************)
(* The scan of one recipe's steps as a function of the steps               *)
(***************************************************************************)
ExtractInit ==
    /\ user = "user-1"
    /\ recipes = {}
    /\ ViewConstructed
    /\ steps \in StepLists
    /\ micronutrients = InitialMicronutrients
    /\ macronutrients = InitialMacronutrients
    /\ scanned = FALSE

\* lines 106-224 for a recipe with the given steps
ScanRecipeSteps ==
    /\ ~scanned
    /\ LET n == ExtractNutrients(steps)
       IN  /\ micronutrients' = n.micronutrients
           /\ macronutrients' = n.macronutrients
    /\ scanned' = TRUE
    /\ UNCHANGED <<steps, viewVars, orderVars, pagesVars>>

ExtractNext == ScanRecipeSteps

ExtractSpec == ExtractInit /\ [][ExtractNext]_vars

(***************************************************************************)
(* Vocabulary of the properties                                            *)
(***************************************************************************)
\* the recipe of the last fetched list with the given id
FetchedRecipe(id) ==
    lastRecipesData[CHOOSE i \in 1..Len(lastRecipesData) : lastRecipesData[i].id = id]

\* position of a recipe id in the last fetched list
FetchedIndex(id) ==
    CHOOSE i \in 1..Len(lastRecipesData) : lastRecipesData[i].id = id

\* the calendar day written in created_at
CalendarDay(recipe) ==
    <<recipe.created_at.y, recipe.created_at.mo, recipe.created_at.d>>

\* calendar day a is later than calendar day b
LaterDay(a, b) ==
    \/ a[1] > b[1]
    \/ a[1] = b[1] /\ a[2] > b[2]
    \/ a[1] = b[1] /\ a[2] = b[2] /\ a[3] > b[3]

\* the ten extracted values of a recipe, as a set
ExtractedValues(recipe) ==
    IF "steps" \notin DOMAIN recipe THEN {0}
    ELSE LET n == ExtractNutrients(recipe.steps)
         IN  {n[NutrientPatterns[k].group][NutrientPatterns[k].key].value :
                  k \in 1..Len(NutrientPatterns)}

\* at least one of the ten extracted values is strictly positive
Qualifies(recipe) == \E v \in ExtractedValues(recipe) : v > 0

\* the calendar day of an aggregate: the day of the recipe of its first meal
AggregateDay(dayData) == CalendarDay(FetchedRecipe(dayData.meals[1].id))

\* all meal records of the output, as <<day index, meal index>>
MealPositions ==
    {p \in (1..Len(nutrientHistory)) \X (1..MaxRecipes + 1) :
        p[2] <= Len(nutrientHistory[p[1]].meals)}

(***************************************************************************)
(* C1: the day list of the output is ordered by calendar date, most        *)
(* recent day first, also when the recipes span a year boundary.           *)
(***************************************************************************)
C1_DaysDescending ==
    \A i, j \in 1..Len(nutrientHistory) :
        i < j => LaterDay(AggregateDay(nutrientHistory[i]),
                          AggregateDay(nutrientHistory[j]))

(***************************************************************************)
(* C2: every meal record has a strictly positive value among its ten       *)
(* values, and a fetched recipe whose ten values are all zero changes      *)
(* nothing: the output is the output of the list without that recipe.      *)
(***************************************************************************)
C2_ZeroRecipeDiscarded ==
    /\ \A p \in MealPositions :
           LET meal == nutrientHistory[p[1]].meals[p[2]]
           IN  \E k \in 1..Len(NutrientPatterns) :
                   meal[NutrientPatterns[k].group][NutrientPatterns[k].key].value > 0
    /\ \A i \in 1..Len(lastRecipesData) :
           ~Qualifies(lastRecipesData[i])
               => nutrientHistory = RunOutput(RemoveAt(lastRecipesData, i))

\* a run has produced days from a list that holds a recipe whose only
\* annotation has the value 0 and a positive percentage
C2_Witness ==
    /\ lastRun = "data"
    /\ nutrientHistory # <<>>
    /\ \E i \in 1..Len(lastRecipesData) :
           /\ "steps" \in DOMAIN lastRecipesData[i]
           /\ lastRecipesData[i].steps = <<WellFormedStep(9, 0, 5)>>

(***************************************************************************)
(* C3: every day aggregate held in nutrientHistory has at least one meal.  *)
(***************************************************************************)
C3_MealsNonEmpty ==
    \A i \in 1..Len(nutrientHistory) : Len(nutrientHistory[i].meals) > 0

\* a run has produced days from a list in which some recipe does not
\* qualify and shares its calendar day with no qualifying recipe
C3_Witness ==
    /\ lastRun = "data"
    /\ nutrientHistory # <<>>
    /\ \E i \in 1..Len(lastRecipesData) :
           /\ ~Qualifies(lastRecipesData[i])
           /\ \A j \in 1..Len(lastRecipesData) :
                  Qualifies(lastRecipesData[j])
                      => CalendarDay(lastRecipesData[j]) # CalendarDay(lastRecipesData[i])

(***************************************************************************)
(* C4: averageData of every day is the extracted values of the first       *)
(* qualifying recipe of that day in the fetched list, which is meals[0],   *)
(* however many meals the day has.                                         *)
(***************************************************************************)
C4_AverageIsFirstMeal ==
    \A i \in 1..Len(nutrientHistory) :
        LET dayData == nutrientHistory[i]
            ofDay   == {j \in 1..Len(lastRecipesData) :
                           /\ Qualifies(lastRecipesData[j])
                           /\ CalendarDay(lastRecipesData[j]) = AggregateDay(dayData)}
            first   == CHOOSE j \in ofDay : \A k \in ofDay : j <= k
        IN  /\ dayData.averageData = ExtractNutrients(lastRecipesData[first].steps)
            /\ dayData.averageData.micronutrients = dayData.meals[1].micronutrients
            /\ dayData.averageData.macronutrients = dayData.meals[1].macronutrients

\* a day with two meals whose values differ
C4_Witness ==
    \E i \in 1..Len(nutrientHistory) :
        /\ Len(nutrientHistory[i].meals) >= 2
        /\ nutrientHistory[i].meals[1].macronutrients
               # nutrientHistory[i].meals[2].macronutrients

(***************************************************************************)
(* C5: every qualifying recipe of the fetched list is exactly one meal     *)
(* record, with its id, in the aggregate of the calendar day of its        *)
(* created_at, and there are as many meal records as qualifying recipes.   *)
(***************************************************************************)
C5_OneMealPerQualifyingRecipe ==
    LET qualifying == {j \in 1..Len(lastRecipesData) : Qualifies(lastRecipesData[j])}
    IN  lastRun = "data" =>
        /\ Cardinality(MealPositions) = Cardinality(qualifying)
        /\ \A j \in qualifying :
               LET recipe == lastRecipesData[j]
                   at == {p \in MealPositions :
                             nutrientHistory[p[1]].meals[p[2]].id = recipe.id}
               IN  /\ Cardinality(at) = 1
                   /\ \A p \in at :
                          LET dayData == nutrientHistory[p[1]]
                          IN  /\ dayData.day = [month |-> MonthNames[recipe.created_at.mo],
                                                d |-> recipe.created_at.d]
                              /\ \A m \in 1..Len(dayData.meals) :
                                     CalendarDay(FetchedRecipe(dayData.meals[m].id))
                                         = CalendarDay(recipe)

\* two qualifying recipes of the same month and day in different years
C5_Witness ==
    /\ lastRun = "data"
    /\ \E i, j \in 1..Len(lastRecipesData) :
           /\ Qualifies(lastRecipesData[i]) /\ Qualifies(lastRecipesData[j])
           /\ lastRecipesData[i].created_at.y # lastRecipesData[j].created_at.y
           /\ lastRecipesData[i].created_at.mo = lastRecipesData[j].created_at.mo
           /\ lastRecipesData[i].created_at.d = lastRecipesData[j].created_at.d

(***************************************************************************)
(* C6: inside every day the meals keep the relative order their recipes    *)
(* have in the fetched list.                                               *)
(***************************************************************************)
C6_MealsInProcessingOrder ==
    \A i \in 1..Len(nutrientHistory) :
        \A a, b \in 1..Len(nutrientHistory[i].meals) :
            a < b => FetchedIndex(nutrientHistory[i].meals[a].id)
                         < FetchedIndex(nutrientHistory[i].meals[b].id)

\* a day with two meals that the sort has moved behind a day fetched later
C6_Witness ==
    \E i, j \in 1..Len(nutrientHistory) :
        /\ i < j
        /\ Len(nutrientHistory[j].meals) >= 2
        /\ FetchedIndex(nutrientHistory[j].meals[1].id)
               < FetchedIndex(nutrientHistory[i].meals[1].id)

(***************************************************************************)
(* C7: a nutrient matched in several steps of a recipe ends with the value *)
(* and percentage of the last matching step; nothing is accumulated.       *)
(***************************************************************************)
\* the field of nutrient pattern k after the scan
ScannedField(k) ==
    IF NutrientPatterns[k].group = "micronutrients"
    THEN micronutrients[NutrientPatterns[k].key]
    ELSE macronutrients[NutrientPatterns[k].key]

\* the steps that pattern k matches
MatchingSteps(k) ==
    {i \in 1..Len(steps) :
        StringMatch(steps[i], NutrientPatterns[k].label, NutrientPatterns[k].unitText) # null}

C7_LastMatchWins ==
    scanned =>
        /\ \A k \in 1..Len(NutrientPatterns) :
               LET matching == MatchingSteps(k)
               IN  matching # {} =>
                       LET last == CHOOSE i \in matching : \A j \in matching : j <= i
                           m == StringMatch(steps[last], NutrientPatterns[k].label,
                                            NutrientPatterns[k].unitText)
                       IN  ScannedField(k) = [value |-> parseInt(m[2]),
                                              unit |-> NutrientPatterns[k].unit,
                                              percentage |-> parseInt(m[3])]
        /\ steps = <<WellFormedStep(7, 10, 10), WellFormedStep(7, 20, 20)>>
               => macronutrients.protein = [value |-> 20, unit |-> "g", percentage |-> 20]

\* "Protein: 10g (10%)" then "Protein: 20g (20%)" have been scanned
C7_Witness ==
    /\ scanned
    /\ steps = <<WellFormedStep(7, 10, 10), WellFormedStep(7, 20, 20)>>

(***************************************************************************)
(* C8: a step "<Label>: <integer><unit> (<integer>%)" sets the field of    *)
(* that nutrient to the first integer, the canonical unit and the second   *)
(* integer and leaves the other nine fields as they were; the label is     *)
(* matched whatever its case.                                              *)
(***************************************************************************)
C8_WellFormedStepSetsField ==
    scanned /\ Len(steps) > 0 =>
        \A c \in WellFormedCases :
            steps[Len(steps)] = StepOfCase(c) =>
                LET earlier == ExtractNutrients(SubSeq(steps, 1, Len(steps) - 1))
                IN  /\ ScannedField(c.k) = [value |-> c.v,
                                            unit |-> NutrientPatterns[c.k].unit,
                                            percentage |-> c.p]
                    /\ \A k \in 1..Len(NutrientPatterns) :
                           k # c.k =>
                               ScannedField(k) =
                                   earlier[NutrientPatterns[k].group][NutrientPatterns[k].key]

\* "protein: 25g (40%)" has been scanned after a step that set another field
C8_Witness ==
    /\ scanned
    /\ Len(steps) = 2
    /\ steps[2] = LowerLabelStep(7, 25, 40)
    /\ macronutrients.protein = [value |-> 25, unit |-> "g", percentage |-> 40]
    /\ micronutrients.vitamin_a.value = 300

(***************************************************************************)
(* C9: a run whose fetch failed assigns nothing to nutrientHistory, sets   *)
(* loading to false and does not let the error leave fetchNutrientData.    *)
(***************************************************************************)
\* a run whose fetch failed finishes in this step
FailedRunFinishes ==
    /\ Len(requests') < Len(requests)
    /\ lastRun' = "error"

C9_FailedFetchKeepsHistory ==
    [][FailedRunFinishes =>
          /\ nutrientHistory' = nutrientHistory
          /\ loading' = FALSE
          /\ rejected' = FALSE]_vars

\* a failed run has finished while days of an earlier run were held
C9_Witness ==
    /\ lastRun = "error"
    /\ nutrientHistory # <<>>
    /\ loading = FALSE
    /\ rejected = FALSE

(***************************************************************************)
(* C10: nutrientHistory is the empty list it starts with or the complete   *)
(* output of one single run for the list that run fetched; a run replaces  *)
(* the value and never merges into it.                                     *)
(***************************************************************************)
\* the outputs of a run, one for each list a fetch of the watched table returns
WatchedOutputs == {RunOutput(SelectRecipes(t)) : t \in WatchedTables}

C10_HistoryIsOneRunsOutput ==
    /\ nutrientHistory = RunOutput(lastRecipesData)
    /\ nutrientHistory \in WatchedOutputs
    /\ lastRun = "empty" => nutrientHistory = <<>>

\* every started run has finished, the last one after a refresh and with
\* data, and the table has changed since that run fetched it
C10_Witness ==
    /\ lastRun = "data"
    /\ requests = <<>>
    /\ refreshKey > 0
    /\ effectDeps = <<user, refreshKey>>
    /\ nutrientHistory # <<>>
    /\ nutrientHistory # RunOutput(SelectRecipes(recipes))

(***************************************************************************)
(* Steps of the view, told from the two states of a step                   *)
(***************************************************************************)
\* the effect runs: it records the dependencies it ran with
EffectRuns == effectDeps' # effectDeps

\* the callback of the channel is called with one change event
NotificationDelivered ==
    /\ pendingEvents' = pendingEvents - 1
    /\ effectDeps' = effectDeps
    /\ channels' = channels

\* the step starts at least one run
RunStarts == Len(requests') > Len(requests)

\* the step starts exactly one run and leaves the suspended runs as they are
OneRunStarts == requests' = Append(requests, [state |-> "sent"])

\* a run finishes in this step
RunFinishes == Len(requests') < Len(requests)

(***************************************************************************)
(* C11: with a signed-in user and a subscribed channel, the delivery of    *)
(* a change event starts exactly one run, whatever the event type, the     *)
(* rows of the table and the runs that are suspended, and assigns nothing  *)
(* to nutrientHistory.                                                     *)
(***************************************************************************)
C11_NotificationStartsOneRun ==
    [][NotificationDelivered =>
          /\ user # NoUser
          /\ OneRunStarts
          /\ loading' = TRUE
          /\ nutrientHistory' = nutrientHistory]_vars

\* the run of the activation is suspended, the only row of the table has
\* been deleted and the event of that change has started a second run
C11_Witness ==
    /\ refreshKey = 0
    /\ recipes = {}
    /\ pendingEvents = 0
    /\ Len(requests) = 2
    /\ requests[2].state = "sent"
    /\ lastRun = "none"
    /\ loading = TRUE

OwnOutputOf(i) ==
    /\ requests' = RemoveAt(requests, i)
    /\ \E response \in Responses(requests[i]) :
           /\ ~response.error
           /\ nutrientHistory' = IF "data" \in DOMAIN response
                                 THEN RunOutput(response.data)
                                 ELSE <<>>

C16_LastResolvedRunWins ==
    /\ [][/\ RunStarts => OneRunStarts
          /\ RunFinishes => \E i \in 1..Len(requests) : requests' = RemoveAt(requests, i)
          /\ RunFinishes /\ lastRun' # "error"
                 => \E i \in 1..Len(requests) : OwnOutputOf(i)]_vars
    /\ [](lastOvertaken /\ lastRun # "error"
              => nutrientHistory = RunOutput(lastRecipesData))

\* two runs were suspended together; the one triggered later has finished
\* without an error, then the one triggered first has finished with the
\* days of a list that is no longer the list of the table
C16_Witness ==
    /\ lastOvertaken
    /\ lastRun = "data"
    /\ requests = <<>>
    /\ nutrientHistory = RunOutput(lastRecipesData)
    /\ nutrientHistory # RunOutput(SelectRecipes(recipes))

OneRunRead ==
    /\ Len(requests') = Len(requests)
    /\ \E i \in 1..Len(requests) :
           /\ requests[i].state = "sent"
           /\ requests'[i].state = "read"
           /\ \A j \in 1..Len(requests) : j # i => requests'[j] = requests[j]

NoPatternMatches(recipe) ==
    \/ HasNoSteps(recipe)
    \/ \A i \in 1..Len(recipe.steps), k \in 1..Len(NutrientPatterns) :
           StringMatch(recipe.steps[i], NutrientPatterns[k].label,
                       NutrientPatterns[k].unitText) = null

C13_MalformedRecipeSkipped ==
    lastRun = "data" =>
        \A i \in 1..Len(lastRecipesData) :
            NoPatternMatches(lastRecipesData[i]) =>
                /\ \A p \in MealPositions :
                       nutrientHistory[p[1]].meals[p[2]].id # lastRecipesData[i].id
                /\ nutrientHistory = RunOutput(RemoveAt(lastRecipesData, i))

\* a run has produced days from a list in which a recipe without a steps
\* column and a recipe with one step without annotation come before a
\* qualifying recipe
C13_Witness ==
    /\ lastRun = "data"
    /\ nutrientHistory # <<>>
    /\ rejected = FALSE
    /\ \E i, j, k \in 1..Len(lastRecipesData) :
           /\ i < k /\ j < k
           /\ "steps" \notin DOMAIN lastRecipesData[i]
           /\ "steps" \in DOMAIN lastRecipesData[j]
           /\ lastRecipesData[j].steps = <<MixWell>>
           /\ Qualifies(lastRecipesData[k])

(***************************************************************************)
(* C17: the output has one day aggregate for each calendar day (year,      *)
(* month and day) on which a qualifying recipe of the fetched list was     *)
(* created: no two aggregates stand for the same day, and all meals of an  *)
(* aggregate are recipes of its day.                                       *)
(***************************************************************************)
\* the calendar days of the qualifying recipes of the fetched list
QualifyingDays ==
    {CalendarDay(lastRecipesData[j]) :
         j \in {i \in 1..Len(lastRecipesData) : Qualifies(lastRecipesData[i])}}

C17_OneAggregatePerDayKey ==
    lastRun = "data" =>
        /\ Len(nutrientHistory) = Cardinality(QualifyingDays)
        /\ \A d \in QualifyingDays :
               \E i \in 1..Len(nutrientHistory) : AggregateDay(nutrientHistory[i]) = d
        /\ \A i, j \in 1..Len(nutrientHistory) :
               i # j => AggregateDay(nutrientHistory[i]) # AggregateDay(nutrientHistory[j])
        /\ \A p \in MealPositions :
               CalendarDay(FetchedRecipe(nutrientHistory[p[1]].meals[p[2]].id))
                   = AggregateDay(nutrientHistory[p[1]])

\* two qualifying recipes of one day and a third of another day of the same
\* month have given two aggregates
C17_Witness ==
    /\ lastRun = "data"
    /\ Len(nutrientHistory) = 2
    /\ \E i, j, k \in 1..Len(lastRecipesData) :
           /\ i # j
           /\ Qualifies(lastRecipesData[i])
           /\ Qualifies(lastRecipesData[j])
           /\ Qualifies(lastRecipesData[k])
           /\ CalendarDay(lastRecipesData[i]) = CalendarDay(lastRecipesData[j])
           /\ CalendarDay(lastRecipesData[k]) # CalendarDay(lastRecipesData[i])
           /\ lastRecipesData[k].created_at.mo = lastRecipesData[i].created_at.mo
           /\ lastRecipesData[k].created_at.y = lastRecipesData[i].created_at.y

(***************************************************************************)
(* C15: every meal record and every averageData has the six micronutrient  *)
(* keys and the four macronutrient keys, each field with the unit of its   *)
(* nutrient (mcg for vitamin_a, mg for the other micronutrients, g for     *)
(* the macronutrients); a nutrient that no step of the recipe matches has  *)
(* value 0 and percentage 0.                                               *)
(***************************************************************************)
MicronutrientKeys ==
    {"vitamin_a", "vitamin_c", "calcium", "iron", "potassium", "sodium"}

MacronutrientKeys == {"protein", "carbs", "fat", "fiber"}

\* the unit of each nutrient
CanonicalUnit ==
    [vitamin_a |-> "mcg", vitamin_c |-> "mg", calcium |-> "mg", iron |-> "mg",
     potassium |-> "mg", sodium |-> "mg",
     protein |-> "g", carbs |-> "g", fat |-> "g", fiber |-> "g"]

\* the two field sets have all keys, each field with its unit
CompleteNutrients(n) ==
    /\ DOMAIN n.micronutrients = MicronutrientKeys
    /\ DOMAIN n.macronutrients = MacronutrientKeys
    /\ \A key \in MicronutrientKeys :
           /\ DOMAIN n.micronutrients[key] = {"value", "unit", "percentage"}
           /\ n.micronutrients[key].unit = CanonicalUnit[key]
    /\ \A key \in MacronutrientKeys :
           /\ DOMAIN n.macronutrients[key] = {"value", "unit", "percentage"}
           /\ n.macronutrients[key].unit = CanonicalUnit[key]

\* the fields of the nutrients that no step of the recipe matches are zero
UnmatchedAreZero(n, recipe) ==
    \A k \in 1..Len(NutrientPatterns) :
        LET pat == NutrientPatterns[k]
        IN  (\A i \in 1..Len(recipe.steps) :
                 StringMatch(recipe.steps[i], pat.label, pat.unitText) = null)
                => /\ n[pat.group][pat.key].value = 0
                   /\ n[pat.group][pat.key].percentage = 0

C15_AllKeysWithCanonicalUnits ==
    /\ \A p \in MealPositions :
           LET meal == nutrientHistory[p[1]].meals[p[2]]
           IN  /\ CompleteNutrients(meal)
               /\ UnmatchedAreZero(meal, FetchedRecipe(meal.id))
    /\ \A i \in 1..Len(nutrientHistory) :
           /\ DOMAIN nutrientHistory[i].averageData
                  = {"micronutrients", "macronutrients"}
           /\ CompleteNutrients(nutrientHistory[i].averageData)
           /\ UnmatchedAreZero(nutrientHistory[i].averageData,
                               FetchedRecipe(nutrientHistory[i].meals[1].id))

\* a meal whose recipe annotates protein only, and a meal whose recipe
\* annotates vitamin A only
C15_Witness ==
    /\ \E p \in MealPositions :
           LET meal == nutrientHistory[p[1]].meals[p[2]]
           IN  /\ meal.macronutrients.protein.value = 25
               /\ meal.micronutrients.vitamin_a = [value |-> 0, unit |-> "mcg",
                                                   percentage |-> 0]
    /\ \E p \in MealPositions :
           LET meal == nutrientHistory[p[1]].meals[p[2]]
           IN  /\ meal.micronutrients.vitamin_a.value = 300
               /\ meal.macronutrients.protein = [value |-> 0, unit |-> "g",
                                                 percentage |-> 0]

(***************************************************************************)
(* C14: every field of a recipe that becomes a meal record has a value     *)
(* >= 0 and a percentage >= 0; the percentage is the integer written in    *)
(* the last matching step, as it is written: it is within 0..100 exactly   *)
(* when that step writes at most 100.                                      *)
(***************************************************************************)
\* the fields of the scanned recipe go into a meal record and an averageData
BecomesMealRecord ==
    /\ scanned
    /\ hasNutrientData([micronutrients |-> micronutrients,
                        macronutrients |-> macronutrients])

\* the percentage written in the last step that pattern k matches
WrittenPercentage(k) ==
    LET matching == MatchingSteps(k)
        last == CHOOSE i \in matching : \A j \in matching : j <= i
    IN  parseInt(StringMatch(steps[last], NutrientPatterns[k].label,
                             NutrientPatterns[k].unitText)[3])

C14_FieldsAsWritten ==
    BecomesMealRecord =>
        \A k \in 1..Len(NutrientPatterns) :
            /\ ScannedField(k).value >= 0
            /\ ScannedField(k).percentage >= 0
            /\ ScannedField(k).percentage <= 100
                   <=> (MatchingSteps(k) = {} \/ WrittenPercentage(k) <= 100)

\* as C14 is worded: every percentage is within 0..100
C14_PercentageWithin100 ==
    BecomesMealRecord =>
        \A k \in 1..Len(NutrientPatterns) :
            /\ ScannedField(k).value >= 0
            /\ ScannedField(k).percentage \in 0..100

\* "Iron: 150mg (250%)" has been scanned after a step that set another field
C14_Witness ==
    /\ BecomesMealRecord
    /\ Len(steps) = 2
    /\ steps[2] = WellFormedStep(4, 150, 250)
    /\ micronutrients.iron = [value |-> 150, unit |-> "mg", percentage |-> 250]
    /\ macronutrients.protein.percentage = 40

(***************************************************************************)
(* C18: a step with the label of a nutrient and without the rest of its    *)
(* pattern (no percentage, a value that is not an integer, another unit)   *)
(* leaves all ten fields as the steps before it left them, at the zero     *)
(* defaults if it is the only step; no part of its number is extracted.    *)
(***************************************************************************)
\* the steps with the label of a nutrient and without the rest of its pattern
PartialSteps ==
    {ProteinNoPercentage, ProteinDecimalValue, ProteinOtherUnit,
     VitaminAOtherUnit, ProteinNegativeValue}

C18_PartialMatchLeavesField ==
    scanned /\ Len(steps) > 0 /\ steps[Len(steps)] \in PartialSteps =>
        LET earlier == ExtractNutrients(SubSeq(steps, 1, Len(steps) - 1))
        IN  /\ micronutrients = earlier.micronutrients
            /\ macronutrients = earlier.macronutrients
            /\ Len(steps) = 1 =>
                   /\ micronutrients = InitialMicronutrients
                   /\ macronutrients = InitialMacronutrients

\* "Protein: 25g" has been scanned after "Protein: 10g (10%)"
C18_Witness ==
    /\ scanned
    /\ steps = <<WellFormedStep(7, 10, 10), ProteinNoPercentage>>
    /\ macronutrients.protein = [value |-> 10, unit |-> "g", percentage |-> 10]

(***************************************************************************)
(* C21: a run of the pipeline only reads the recipe collection: no step of *)
(* a run (its start, the store answering its query, its finish) inserts,   *)
(* updates or deletes a row or publishes a change, and of the component    *)
(* state a run changes nutrientHistory and loading only: refreshKey and    *)
(* cameraDialogOpen are left as they are.                                  *)
(***************************************************************************)
\* a step of a run: it starts, the store answers its query, or it finishes
RunSteps == requests' # requests

C21_RunOnlyReads ==
    [][RunSteps =>
          /\ recipes' = recipes
          /\ pendingEvents' <= pendingEvents
          /\ refreshKey' = refreshKey
          /\ cameraDialogOpen' = cameraDialogOpen]_vars

\* a run started by a refresh has finished with the days of a row that is
\* still in the store, while the camera dialog was open
C21_Witness ==
    /\ lastRun = "data"
    /\ requests = <<>>
    /\ nutrientHistory # <<>>
    /\ loading = FALSE
    /\ refreshKey > 0
    /\ cameraDialogOpen
    /\ recipes # {}
    /\ lastRecipesData = SelectRecipes(recipes)

(***************************************************************************)
(* C25: at most one realtime subscription to the recipes table is active   *)
(* at any time: each run of the effect, whether the user or the refresh    *)
(* counter changed, leaves exactly the channel it subscribes (none without *)
(* a user), after the view is left no channel remains, and one change      *)
(* notification never starts more than one run.                            *)
(***************************************************************************)
C25_AtMostOneChannel ==
    /\ [](/\ channels \in {0, 1}
          /\ ~Mounted => channels = 0 /\ pendingEvents = 0)
    /\ [][/\ EffectRuns => channels' = IF user = NoUser THEN 0 ELSE 1
          /\ NotificationDelivered => Len(requests') <= Len(requests) + 1]_vars

\* the view has been left after the effect had run again for a refresh,
\* with runs still suspended: the channel and its events are gone
C25_Witness ==
    /\ location = "elsewhere"
    /\ effectDeps # <<>>
    /\ effectDeps[1] # NoUser
    /\ effectDeps[2] > 0
    /\ requests # <<>>
    /\ recipes # {}
    /\ channels = 0
    /\ pendingEvents = 0

(***************************************************************************)
(* C26: once every run that was started has finished, with data, with an   *)
(* empty result or with a failed fetch, loading is false: no finished run  *)
(* leaves loading at true.                                                 *)
(***************************************************************************)
C26_LoadingFalseWhenIdle ==
    (requests = <<>> /\ lastRun # "none") => loading = FALSE

\* the runs of the activation, of a refresh and of a notification have all
\* finished, the last one with a failed fetch and nothing held
C26_Witness ==
    /\ requests = <<>>
    /\ lastRun = "error"
    /\ nutrientHistory = <<>>
    /\ refreshKey > 0
    /\ effectDeps = <<user, refreshKey>>
    /\ pendingEvents = 0
    /\ recipes # {}
    /\ loading = FALSE

(***************************************************************************)
(* C27: with no signed-in user no recipe fetch is issued and no realtime   *)
(* channel is subscribed: a run of the effect without a user only          *)
(* navigates to /auth, leaving loading, nutrientHistory and the suspended  *)
(* runs as they are and no channel behind.                                 *)
(***************************************************************************)
\* the view has no user: none in the auth context and none in the render the
\* effect last ran in
NoSignedInUser ==
    /\ user = NoUser
    /\ effectDeps = <<>> \/ effectDeps[1] = NoUser

GoalsRoute == "/goals"

\* type FormStep
FormSteps ==
    {"goal-selection", "basic-info", "weight-details", "activity-details",
     "dietary-details", "results", "meal-plan"}

\* const steps of handleNextStep and of handlePreviousStep
WizardSteps ==
    <<"goal-selection", "basic-info", "weight-details", "activity-details",
      "dietary-details">>

\* seq.indexOf(x): the position counted from 0, -1 when x is not in seq
IndexOf(seq, x) ==
    IF \E k \in 1..Len(seq) : seq[k] = x
    THEN (CHOOSE k \in 1..Len(seq) : seq[k] = x /\ \A j \in 1..(k - 1) : seq[j] # x) - 1
    ELSE -1

GoalTypes == {"gain", "lose", "maintain"}

\* what is typed into a field of the form: nothing or a number
InputTexts == {<<>>, <<"7", "0">>}

\* what calculateCalorieIntake resolves to
CalorieResultsValues == {[daily_calories |-> <<"2", "2", "0", "0">>],
                         [daily_calories |-> <<"1", "8", "0", "0">>]}

\* what generateMealPlan resolves to
MealPlans == {[total_daily_calories |-> <<"2", "2", "0", "0">>]}

\* the rows the update of nutrition_data returns
GoalRows == {<<>>, <<[id |-> <<"g", "1">>]>>}

\* a wizard whose handlers step past the last card to the first
HandleNextStepWraps(currentStepName) ==
    LET currentIndex == IndexOf(WizardSteps, currentStepName)
    IN  currentStep' = WizardSteps[((currentIndex + 1) % Len(WizardSteps)) + 1]

\* handleNextStep(currentStepName), lines 636-643
HandleNextStep(currentStepName) ==
    LET currentIndex == IndexOf(WizardSteps, currentStepName)
    IN  currentStep' = IF currentIndex < Len(WizardSteps) - 1
                       THEN WizardSteps[currentIndex + 2]
                       ELSE currentStep

\* handlePreviousStep(currentStepName), lines 645-652
HandlePreviousStep(currentStepName) ==
    LET currentIndex == IndexOf(WizardSteps, currentStepName)
    IN  currentStep' = IF currentIndex > 0
                       THEN WizardSteps[currentIndex]
                       ELSE currentStep

\* what a step of the Goals page leaves alone
GoalsFrame ==
    UNCHANGED <<user, trackingVars, orderVars, extractVars, cardsVars, indexVars,
                stepCall, called>>

\* the page is past its loader and shows the card of the step
OnScreen(step) ==
    /\ location = GoalsRoute
    /\ ~loading
    /\ currentStep = step

\* line 1074 and line 1163
ResultsCard == OnScreen("results") /\ calorieResults # null

MealPlanCard == OnScreen("meal-plan") /\ mealPlan # null

\* the mount effect, lines 591-620
GoalsEffect ==
    /\ location = GoalsRoute
    /\ goalFetch = "idle"
    /\ IF user = NoUser
       THEN location' = "/auth" /\ UNCHANGED goalFetch
       ELSE goalFetch' = "sent" /\ UNCHANGED location
    /\ UNCHANGED <<loading, currentStep, userGoal, calorieResults, mealPlan,
                   savedGoalId, calculating, generatingMealPlan, submitCall,
                   generateCall>>
    /\ GoalsFrame

\* fetchExistingGoal after its await: whatever the answer, finally
\* setLoading(false)
FetchExistingGoalSettles ==
    /\ goalFetch = "sent"
    /\ goalFetch' = "done"
    /\ loading' = FALSE
    /\ UNCHANGED <<location, currentStep, userGoal, calorieResults, mealPlan,
                   savedGoalId, calculating, generatingMealPlan, submitCall,
                   generateCall>>
    /\ GoalsFrame

\* handleGoalSelect(goalType), the three buttons of the first card
HandleGoalSelect(goalType) ==
    /\ OnScreen("goal-selection")
    /\ userGoal' = [userGoal EXCEPT !.goalType = goalType]
    /\ currentStep' = "basic-info"
    /\ UNCHANGED <<location, loading, calorieResults, mealPlan, savedGoalId,
                   calculating, generatingMealPlan, goalFetch, submitCall,
                   generateCall>>
    /\ GoalsFrame

\* handleInputChange for the input called name, which its card shows
HandleInputChange(name, value) ==
    /\ \/ name \in {"age", "height"} /\ OnScreen("basic-info")
       \/ name = "currentWeight" /\ OnScreen("weight-details")
       \/ /\ name \in {"targetWeight", "timeframe"}
          /\ OnScreen("weight-details")
          /\ userGoal.goalType # "maintain"
       \/ name = "mealsPerDay" /\ OnScreen("dietary-details")
    /\ userGoal[name] # value
    /\ userGoal' = [userGoal EXCEPT ![name] = value]
    /\ UNCHANGED <<location, loading, currentStep, calorieResults, mealPlan,
                   savedGoalId, calculating, generatingMealPlan, goalFetch,
                   submitCall, generateCall>>
    /\ GoalsFrame

\* the Back buttons that call setCurrentStep with a fixed step
SetCurrentStep(step) ==
    /\ \/ step = "goal-selection" /\ OnScreen("basic-info")
       \/ step = "dietary-details" /\ ResultsCard
       \/ step = "results" /\ MealPlanCard
    /\ currentStep' = step
    /\ UNCHANGED <<location, loading, userGoal, calorieResults, mealPlan,
                   savedGoalId, calculating, generatingMealPlan, goalFetch,
                   submitCall, generateCall>>
    /\ GoalsFrame

\* the Next button of a card, disabled while its fields are empty
ClickNext(name) ==
    /\ OnScreen(name)
    /\ \/ /\ name = "basic-info"
          /\ userGoal.age # <<>>
          /\ userGoal.height # <<>>
       \/ /\ name = "weight-details"
          /\ userGoal.currentWeight # <<>>
          /\ \/ userGoal.goalType = "maintain"
             \/ userGoal.targetWeight # <<>> /\ userGoal.timeframe # <<>>
       \/ name = "activity-details"
    /\ HandleNextStep(name)
    /\ UNCHANGED <<location, loading, userGoal, calorieResults, mealPlan,
                   savedGoalId, calculating, generatingMealPlan, goalFetch,
                   submitCall, generateCall>>
    /\ GoalsFrame

\* the Back button of a card that calls handlePreviousStep
ClickPrevious(name) ==
    /\ OnScreen(name)
    /\ name \in {"weight-details", "activity-details", "dietary-details"}
    /\ HandlePreviousStep(name)
    /\ UNCHANGED <<location, loading, userGoal, calorieResults, mealPlan,
                   savedGoalId, calculating, generatingMealPlan, goalFetch,
                   submitCall, generateCall>>
    /\ GoalsFrame

\* handleSubmitGoal up to its first await
HandleSubmitGoal ==
    /\ OnScreen("dietary-details")
    /\ ~calculating
    /\ userGoal.mealsPerDay # <<>>
    /\ calculating' = TRUE
    /\ submitCall' = "calculateCalorieIntake"
    /\ UNCHANGED <<location, loading, currentStep, userGoal, calorieResults,
                   mealPlan, savedGoalId, generatingMealPlan, goalFetch,
                   generateCall>>
    /\ GoalsFrame

\* what the await of calculateCalorieIntake can settle to
CalculationOutcomes ==
    {[rejected |-> TRUE]} \cup
    {[rejected |-> FALSE, result |-> r] : r \in CalorieResultsValues}

\* handleSubmitGoal from the await of calculateCalorieIntake to its next await
CalculationSettles(outcome) ==
    /\ submitCall = "calculateCalorieIntake"
    /\ IF outcome.rejected
       THEN \* catch, finally
            /\ calculating' = FALSE
            /\ submitCall' = "idle"
            /\ UNCHANGED <<calorieResults, currentStep>>
       ELSE /\ calorieResults' = outcome.result
            /\ IF user # NoUser
               THEN /\ submitCall' = "update"
                    /\ UNCHANGED <<currentStep, calculating>>
               ELSE /\ currentStep' = "results"
                    /\ calculating' = FALSE
                    /\ submitCall' = "idle"
    /\ UNCHANGED <<location, loading, userGoal, mealPlan, savedGoalId,
                   generatingMealPlan, goalFetch, generateCall>>
    /\ GoalsFrame

\* what the update of nutrition_data can answer
SaveOutcomes ==
    {[error |-> TRUE]} \cup {[error |-> FALSE, data |-> rows] : rows \in GoalRows}

\* handleSubmitGoal from the await of the update to its end
SaveSettles(outcome) ==
    /\ submitCall = "update"
    /\ savedGoalId' = IF ~outcome.error /\ Len(outcome.data) > 0
                      THEN outcome.data[1].id
                      ELSE savedGoalId
    /\ currentStep' = "results"
    /\ calculating' = FALSE
    /\ submitCall' = "idle"
    /\ UNCHANGED <<location, loading, userGoal, calorieResults, mealPlan,
                   generatingMealPlan, goalFetch, generateCall>>
    /\ GoalsFrame

\* handleGenerateMealPlan up to its await
HandleGenerateMealPlan ==
    /\ ResultsCard
    /\ ~generatingMealPlan
    /\ generatingMealPlan' = TRUE
    /\ generateCall' = "generateMealPlan"
    /\ UNCHANGED <<location, loading, currentStep, userGoal, calorieResults,
                   mealPlan, savedGoalId, calculating, goalFetch, submitCall>>
    /\ GoalsFrame

\* what the await of generateMealPlan can settle to
GenerationOutcomes ==
    {[rejected |-> TRUE]} \cup {[rejected |-> FALSE, result |-> m] : m \in MealPlans}

\* a handler that shows the meal plan card whatever the outcome
GenerationSettlesAlwaysAdvances(outcome) ==
    /\ generateCall = "generateMealPlan"
    /\ IF outcome.rejected
       THEN UNCHANGED mealPlan
       ELSE mealPlan' = outcome.result
    /\ currentStep' = "meal-plan"
    /\ generatingMealPlan' = FALSE
    /\ generateCall' = "idle"
    /\ UNCHANGED <<location, loading, userGoal, calorieResults, savedGoalId,
                   calculating, goalFetch, submitCall>>
    /\ GoalsFrame

\* handleGenerateMealPlan from its await to its end
GenerationSettles(outcome) ==
    /\ generateCall = "generateMealPlan"
    /\ IF outcome.rejected
       THEN UNCHANGED <<mealPlan, currentStep>>
       ELSE /\ mealPlan' = outcome.result
            /\ currentStep' = "meal-plan"
    \* finally
    /\ generatingMealPlan' = FALSE
    /\ generateCall' = "idle"
    /\ UNCHANGED <<location, loading, userGoal, calorieResults, savedGoalId,
                   calculating, goalFetch, submitCall>>
    /\ GoalsFrame

\* handleGenerateGoalsAgain, the Generate New Goals button of the meal plan
HandleGenerateGoalsAgain ==
    /\ MealPlanCard
    /\ mealPlan' = null
    /\ calorieResults' = null
    /\ currentStep' = "goal-selection"
    /\ UNCHANGED <<location, loading, userGoal, savedGoalId, calculating,
                   generatingMealPlan, goalFetch, submitCall, generateCall>>
    /\ GoalsFrame

GoalsInit ==
    /\ user \in Users
    /\ recipes = {}
    /\ location = GoalsRoute
    /\ loading = TRUE
    /\ TrackingConstructed
    /\ ExtractIdle
    /\ PagesIdle

GoalsNext ==
    \/ GoalsEffect
    \/ FetchExistingGoalSettles
    \/ \E goalType \in GoalTypes : HandleGoalSelect(goalType)
    \/ \E name \in DOMAIN InitialUserGoal \ {"goalType"}, value \in InputTexts :
           HandleInputChange(name, value)
    \/ \E step \in FormSteps : SetCurrentStep(step)
    \/ \E name \in FormSteps : ClickNext(name)
    \/ \E name \in FormSteps : ClickPrevious(name)
    \/ HandleSubmitGoal
    \/ \E outcome \in CalculationOutcomes : CalculationSettles(outcome)
    \/ \E outcome \in SaveOutcomes : SaveSettles(outcome)
    \/ HandleGenerateMealPlan
    \/ \E outcome \in GenerationOutcomes : GenerationSettles(outcome)
    \/ HandleGenerateGoalsAgain

GoalsSpec == GoalsInit /\ [][GoalsNext]_vars

(***************************************************************************)
(* The step handlers of the wizard as functions of their argument: each    *)
(* handler called once, with each of the five steps, on each card          *)
(***************************************************************************)
StepHandlers == {"handleNextStep", "handlePreviousStep"}

StepCalls ==
    {[handler |-> h, currentStepName |-> WizardSteps[k]] :
        h \in StepHandlers, k \in 1..Len(WizardSteps)}

\* the form as it is once every card has been filled in
FilledUserGoal ==
    [goalType |-> "gain", currentWeight |-> <<"7", "0">>,
     targetWeight |-> <<"7", "0">>, timeframe |-> <<"7", "0">>,
     age |-> <<"7", "0">>, height |-> <<"7", "0">>, mealsPerDay |-> <<"3">>]

\* the loaded page on any of its cards, with what the card needs to show
StepCallInit ==
    /\ user = "user-1"
    /\ recipes = {}
    /\ location = GoalsRoute
    /\ loading = FALSE
    /\ TrackingConstructed
    /\ ExtractIdle
    /\ recipeCards = <<>>
    /\ currentCardIndex = 0
    /\ IndexConstructed
    /\ currentStep \in FormSteps
    /\ userGoal = FilledUserGoal
    /\ calorieResults \in IF currentStep \in {"results", "meal-plan"}
                          THEN CalorieResultsValues ELSE {null}
    /\ mealPlan \in IF currentStep = "meal-plan" THEN MealPlans ELSE {null}
    /\ savedGoalId = null
    /\ calculating = FALSE
    /\ generatingMealPlan = FALSE
    /\ goalFetch = "done"
    /\ submitCall = "idle"
    /\ generateCall = "idle"
    /\ stepCall \in StepCalls
    /\ called = FALSE

\* the call on record is made
CallStepHandler ==
    /\ ~called
    /\ IF stepCall.handler = "handleNextStep"
       THEN HandleNextStep(stepCall.currentStepName)
       ELSE HandlePreviousStep(stepCall.currentStepName)
    /\ called' = TRUE
    /\ UNCHANGED <<user, location, loading, trackingVars, orderVars, extractVars,
                   cardsVars, indexVars, userGoal, calorieResults, mealPlan,
                   savedGoalId, calculating, generatingMealPlan, goalFetch,
                   submitCall, generateCall, stepCall>>

StepCallNext == CallStepHandler

StepCallSpec == StepCallInit /\ [][StepCallNext]_vars

(***************************************************************************)
(* C22: under every interleaving of the user actions the rendered controls *)
(* offer with the completions of the calorie calculation, the goal save    *)
(* and the meal plan generation, whenever currentStep is "results"         *)
(* calorieResults is not null, so that the results card is rendered.       *)
(***************************************************************************)
C22_ResultsHasCalorieResults ==
    currentStep = "results" => calorieResults # null

(***************************************************************************)
(* C23: whenever currentStep is "meal-plan" mealPlan is not null, and      *)
(* currentStep becomes "meal-plan" only in the step in which a call of     *)
(* handleGenerateMealPlan ends with a meal plan.                           *)
(***************************************************************************)
\* a call of handleGenerateMealPlan ends in this step with a plan
GenerationSucceeds ==
    /\ generateCall = "generateMealPlan"
    /\ generateCall' = "idle"
    /\ mealPlan' \in MealPlans
    /\ generatingMealPlan' = FALSE

C23_MealPlanStepHasMealPlan ==
    /\ [](currentStep = "meal-plan" => mealPlan # null)
    /\ [][(currentStep # "meal-plan" /\ currentStep' = "meal-plan")
              => GenerationSucceeds]_vars

\* the meal plan is shown although the user had gone back to the form and
\* a new calculation is under way
C23_Witness ==
    /\ currentStep = "meal-plan"
    /\ mealPlan # null
    /\ calculating
    /\ submitCall = "calculateCalorieIntake"
    /\ ~generatingMealPlan

(***************************************************************************)
(* C28: when calculateCalorieIntake fails inside handleSubmitGoal,         *)
(* currentStep, calorieResults and savedGoalId are left unchanged and      *)
(* calculating returns to false; when the calculation succeeds and the     *)
(* save to the store answers with an error, the wizard still advances to   *)
(* "results" with calorieResults set; in every outcome calculating is      *)
(* false once the call has finished.                                       *)
(***************************************************************************)
\* the call of handleSubmitGoal ends in this step
SubmitFinishes == submitCall # "idle" /\ submitCall' = "idle"

\* it ends at the await of the calculation: with a signed-in user, because
\* the calculation failed
CalculationFails ==
    /\ user # NoUser
    /\ submitCall = "calculateCalorieIntake"
    /\ submitCall' = "idle"

\* it ends at the await of the update without a row to take an id from: the
\* store answered with an error or with no row
SaveWithoutRow ==
    /\ submitCall = "update"
    /\ submitCall' = "idle"
    /\ savedGoalId' = savedGoalId

C28_CalculationFailureKeepsState ==
    [][CalculationFails =>
          /\ currentStep' = currentStep
          /\ calorieResults' = calorieResults
          /\ savedGoalId' = savedGoalId
          /\ calculating' = FALSE]_vars

C28_CalculatingFalseWhenFinished ==
    [][SubmitFinishes => calculating' = FALSE]_vars

C28_SaveErrorStillAdvances ==
    [][SaveWithoutRow =>
          /\ currentStep' = "results"
          /\ calorieResults' # null]_vars

C28_SubmitOutcomes ==
    /\ C28_CalculationFailureKeepsState
    /\ C28_SaveErrorStillAdvances
    /\ C28_CalculatingFalseWhenFinished

(***************************************************************************)
(* C30: called with one of the five wizard steps, handleNextStep sets      *)
(* currentStep to the step one position after its argument in the order    *)
(* goal-selection, basic-info, weight-details, activity-details,           *)
(* dietary-details and handlePreviousStep to the one before it, which on   *)
(* the card of that step is a move by exactly one position; handleNextStep *)
(* at dietary-details and handlePreviousStep at goal-selection leave       *)
(* currentStep unchanged, and neither sets "results" or "meal-plan".       *)
(***************************************************************************)
\* the place of each wizard step in the fixed order
WizardPosition ==
    ("goal-selection" :> 1) @@ ("basic-info" :> 2) @@ ("weight-details" :> 3) @@
    ("activity-details" :> 4) @@ ("dietary-details" :> 5)

\* the place the call on record asks for
AskedPosition ==
    WizardPosition[stepCall.currentStepName] +
        (IF stepCall.handler = "handleNextStep" THEN 1 ELSE -1)

C30_StepHandlersMoveByOne ==
    [][(~called /\ called') =>
          /\ AskedPosition \in 1..5 =>
                /\ currentStep' \in DOMAIN WizardPosition
                /\ WizardPosition[currentStep'] = AskedPosition
          /\ AskedPosition \notin 1..5 => currentStep' = currentStep
          /\ currentStep' \in {"results", "meal-plan"} => currentStep' = currentStep]_vars

\* handleNextStep has been called on the last card of the wizard, with that
\* card's step
C30_Witness ==
    /\ called
    /\ stepCall.handler = "handleNextStep"
    /\ stepCall.currentStepName = "dietary-details"
    /\ currentStep = "dietary-details"

(***************************************************************************)
(* The flashcard viewers: the RecipeFlashCards component and the landing   *)
(* page (Index) with its upload form and its flashcard modal               *)
(***************************************************************************)
\* recipe.cards of a recipe of n cards
Cards(n) == [k \in 1..n |-> [card |-> k]]

CardLists == {Cards(n) : n \in 1..MaxCards}

\* what response.json() resolves to for a generated recipe
ApiResponses == {[recipe |-> [cards |-> cards]] : cards \in CardLists}

\* the files the picker can hand over
Files == {[name |-> "fridge.jpg"]}

\* the address handleDemoImage sets
DemoUrl == [href |-> "https://www.cameronskitchen.com.au/app/uploads/2020/11/The-Importance-of-Healthy-High-Quality-Ingredients-In-Your-Diet.jpeg"]

\* fileReader.result of readAsDataURL(selectedFile)
DataUrl(selectedFile) == [href |-> "data:", name |-> selectedFile.name]

\* the blob fetched from an address, appended as demo-image.jpg
DemoBlob(url) == [name |-> "demo-image.jpg", from |-> url.href]

\* what a step of the RecipeFlashCards component leaves alone
FlashCardsFrame ==
    UNCHANGED <<user, location, loading, trackingVars, orderVars, extractVars,
                goalsVars, recipeCards, isLoading, file, previewUrl, recipeData,
                showFlashcards, modalCardIndex, fileReads, submitRequest>>

\* what a step of the landing page leaves alone
IndexFrame ==
    UNCHANGED <<user, location, loading, trackingVars, orderVars, extractVars,
                goalsVars, cardsVars>>

\* a viewer that steps on from its last card
HandleNextNoBound ==
    /\ cardAction' = "RecipeFlashCards.handleNext"
    /\ currentCardIndex' = currentCardIndex + 1
    /\ FlashCardsFrame

\* RecipeFlashCards.handleNext; its button is disabled on the last card and
\* the handler tests the index itself
HandleNext ==
    LET totalCards == Len(recipeCards)
    IN  /\ cardAction' = "RecipeFlashCards.handleNext"
        /\ currentCardIndex' = IF currentCardIndex < totalCards - 1
                               THEN currentCardIndex + 1
                               ELSE currentCardIndex
        /\ FlashCardsFrame

\* RecipeFlashCards.handlePrevious
HandlePrevious ==
    /\ cardAction' = "RecipeFlashCards.handlePrevious"
    /\ currentCardIndex' = IF currentCardIndex > 0
                           THEN currentCardIndex - 1
                           ELSE currentCardIndex
    /\ FlashCardsFrame

\* line 178: the modal is on screen, over the form
ModalOpen == showFlashcards /\ recipeData # null

\* handleFileChange with a file chosen in the picker
HandleFileChange(selectedFile) ==
    /\ ~ModalOpen
    /\ fileReads < MaxReads
    /\ file' = selectedFile
    /\ fileReads' = fileReads + 1
    /\ cardAction' = "none"
    /\ UNCHANGED <<isLoading, previewUrl, recipeData, showFlashcards,
                   modalCardIndex, submitRequest>>
    /\ IndexFrame

\* fileReader.onload of a read started by handleFileChange
FileReaderLoads ==
    /\ fileReads > 0
    /\ fileReads' = fileReads - 1
    /\ previewUrl' = DataUrl(file)
    /\ cardAction' = "none"
    /\ UNCHANGED <<isLoading, file, recipeData, showFlashcards, modalCardIndex,
                   submitRequest>>
    /\ IndexFrame

\* handleDemoImage
HandleDemoImage ==
    /\ ~ModalOpen
    /\ previewUrl' = DemoUrl
    /\ cardAction' = "none"
    /\ UNCHANGED <<isLoading, file, recipeData, showFlashcards, modalCardIndex,
                   fileReads, submitRequest>>
    /\ IndexFrame

\* a handleSubmit that prefers the image of the preview
HandleSubmitPreviewFirst ==
    /\ ~ModalOpen
    /\ ~isLoading
    /\ IF file = null /\ previewUrl = null
       THEN UNCHANGED <<isLoading, submitRequest>>
       ELSE /\ isLoading' = TRUE
            /\ submitRequest' = IF previewUrl = DemoUrl \/ file = null
                                THEN [state |-> "demo", url |-> previewUrl]
                                ELSE [state |-> "posted", image |-> file]
    /\ cardAction' = "none"
    /\ UNCHANGED <<file, previewUrl, recipeData, showFlashcards, modalCardIndex,
                   fileReads>>
    /\ IndexFrame

\* handleSubmit up to its first await; the button is disabled while isLoading
HandleSubmit ==
    /\ ~ModalOpen
    /\ ~isLoading
    /\ IF file = null /\ previewUrl = null
       THEN \* the toast, and return
            UNCHANGED <<isLoading, submitRequest>>
       ELSE /\ isLoading' = TRUE
            /\ submitRequest' = IF file # null
                                THEN [state |-> "posted", image |-> file]
                                ELSE [state |-> "demo", url |-> previewUrl]
    /\ cardAction' = "none"
    /\ UNCHANGED <<file, previewUrl, recipeData, showFlashcards, modalCardIndex,
                   fileReads>>
    /\ IndexFrame

\* handleSubmit from the fetch of the demo image to the next await
DemoFetchSettles(ok) ==
    /\ submitRequest.state = "demo"
    /\ IF ok
       THEN /\ submitRequest' = [state |-> "posted", image |-> DemoBlob(submitRequest.url)]
            /\ UNCHANGED isLoading
       ELSE \* throw new Error("Failed to process demo image"); catch; finally
            /\ submitRequest' = [state |-> "idle", outcome |-> "failed"]
            /\ isLoading' = FALSE
    /\ cardAction' = "none"
    /\ UNCHANGED <<file, previewUrl, recipeData, showFlashcards, modalCardIndex,
                   fileReads>>
    /\ IndexFrame

\* what the POST and the parsing of its answer can come to: a failure (the
\* fetch rejects, the status is not ok, the body does not parse) or a recipe
PostOutcomes ==
    {[ok |-> FALSE]} \cup {[ok |-> TRUE, data |-> d] : d \in ApiResponses}

\* handleSubmit from the POST to its end
PostSettles(outcome) ==
    /\ submitRequest.state = "posted"
    /\ IF outcome.ok
       THEN /\ recipeData' = outcome.data
            /\ showFlashcards' = TRUE
            /\ submitRequest' = [state |-> "idle", outcome |-> "succeeded"]
       ELSE \* catch
            /\ UNCHANGED <<recipeData, showFlashcards>>
            /\ submitRequest' = [state |-> "idle", outcome |-> "failed"]
    \* finally
    /\ isLoading' = FALSE
    /\ cardAction' = "none"
    /\ UNCHANGED <<file, previewUrl, modalCardIndex, fileReads>>
    /\ IndexFrame

\* Index.handleNextCard; its button is disabled on the last card
HandleNextCard ==
    /\ ModalOpen
    /\ cardAction' = "Index.handleNextCard"
    /\ modalCardIndex' = IF recipeData # null
                            /\ modalCardIndex < Len(recipeData.recipe.cards) - 1
                         THEN modalCardIndex + 1
                         ELSE modalCardIndex
    /\ UNCHANGED <<isLoading, file, previewUrl, recipeData, showFlashcards,
                   fileReads, submitRequest>>
    /\ IndexFrame

\* Index.handlePrevCard
HandlePrevCard ==
    /\ ModalOpen
    /\ cardAction' = "Index.handlePrevCard"
    /\ modalCardIndex' = IF modalCardIndex > 0
                         THEN modalCardIndex - 1
                         ELSE modalCardIndex
    /\ UNCHANGED <<isLoading, file, previewUrl, recipeData, showFlashcards,
                   fileReads, submitRequest>>
    /\ IndexFrame

\* Index.closeFlashcards
CloseFlashcards ==
    /\ ModalOpen
    /\ cardAction' = "Index.closeFlashcards"
    /\ showFlashcards' = FALSE
    /\ modalCardIndex' = 0
    /\ UNCHANGED <<isLoading, file, previewUrl, recipeData, fileReads,
                   submitRequest>>
    /\ IndexFrame

\* the landing page as constructed, and a RecipeFlashCards mounted with a
\* recipe of at least one card
CardsInit ==
    /\ user = NoUser
    /\ recipes = {}
    /\ location = "/"
    /\ loading = TRUE
    /\ TrackingConstructed
    /\ ExtractIdle
    /\ GoalsConstructed
    /\ recipeCards \in CardLists
    /\ currentCardIndex = 0
    /\ IndexConstructed

CardsNext ==
    \/ HandleNext
    \/ HandlePrevious
    \/ \E selectedFile \in Files : HandleFileChange(selectedFile)
    \/ FileReaderLoads
    \/ HandleDemoImage
    \/ HandleSubmit
    \/ \E ok \in BOOLEAN : DemoFetchSettles(ok)
    \/ \E outcome \in PostOutcomes : PostSettles(outcome)
    \/ HandleNextCard
    \/ HandlePrevCard
    \/ CloseFlashcards

CardsSpec == CardsInit /\ [][CardsNext]_vars

(***************************************************************************)
(* C24: in both flashcard viewers, for a list of at least one card and any *)
(* sequence of next, previous and close, the index of the current card     *)
(* stays within 0..cards.length-1; next on the last card and previous on   *)
(* the first leave it unchanged; closing the modal of the landing page     *)
(* resets its index to 0, so the modal always opens on card 0.             *)
(***************************************************************************)
C24_IndexWithinCards ==
    /\ [](/\ currentCardIndex \in 0..(Len(recipeCards) - 1)
          /\ recipeData # null =>
                modalCardIndex \in 0..(Len(recipeData.recipe.cards) - 1)
          /\ ~showFlashcards => modalCardIndex = 0)
    /\ [][/\ (/\ cardAction' = "RecipeFlashCards.handleNext"
              /\ currentCardIndex = Len(recipeCards) - 1)
                 => currentCardIndex' = currentCardIndex
          /\ (/\ cardAction' = "RecipeFlashCards.handlePrevious"
              /\ currentCardIndex = 0)
                 => currentCardIndex' = currentCardIndex
          /\ (/\ cardAction' = "Index.handleNextCard"
              /\ modalCardIndex = Len(recipeData.recipe.cards) - 1)
                 => modalCardIndex' = modalCardIndex
          /\ (/\ cardAction' = "Index.handlePrevCard"
              /\ modalCardIndex = 0)
                 => modalCardIndex' = modalCardIndex
          /\ cardAction' = "Index.closeFlashcards"
                 => modalCardIndex' = 0 /\ ~showFlashcards']_vars

\* the modal has been closed away from its first card, and a second recipe
\* has opened it again; the other viewer is on the last of several cards
C24_Witness ==
    /\ showFlashcards
    /\ recipeData # null
    /\ Len(recipeData.recipe.cards) > 1
    /\ modalCardIndex = 0
    /\ submitRequest.outcome = "succeeded"
    /\ cardAction = "none"
    /\ Len(recipeCards) > 1
    /\ currentCardIndex = Len(recipeCards) - 1

(***************************************************************************)
(* C29: handleSubmit with neither a file nor a preview address sends no    *)
(* request and leaves isLoading, recipeData and showFlashcards unchanged;  *)
(* with a file selected the file is the image that is uploaded, also when  *)
(* the demo image was chosen afterwards, and the demo image is uploaded    *)
(* only when no file is set; after a failed request recipeData and         *)
(* showFlashcards are unchanged and isLoading is false.                    *)
(***************************************************************************)
\* a call of handleSubmit goes past its test in this step
RequestStarts == submitRequest.state = "idle" /\ submitRequest'.state # "idle"

\* a call of handleSubmit ends in its catch block in this step
RequestFails ==
    /\ submitRequest.state # "idle"
    /\ submitRequest' = [state |-> "idle", outcome |-> "failed"]

C29_SubmitUploadsAndFailures ==
    /\ [](/\ submitRequest.state = "demo" => submitRequest.url = DemoUrl
          /\ isLoading <=> submitRequest.state # "idle")
    /\ [][/\ (file = null /\ previewUrl = null) =>
                 UNCHANGED <<submitRequest, isLoading, recipeData, showFlashcards>>
          /\ (RequestStarts /\ file # null) =>
                 submitRequest' = [state |-> "posted", image |-> file]
          /\ (RequestStarts /\ file = null) =>
                 submitRequest' = [state |-> "demo", url |-> DemoUrl]
          /\ RequestFails =>
                 /\ recipeData' = recipeData
                 /\ showFlashcards' = showFlashcards
                 /\ isLoading' = FALSE]_vars

\* with a file selected and the demo image chosen after it, the file is
\* being uploaded, after an earlier recipe had been shown and closed
C29_Witness ==
    /\ file \in Files
    /\ previewUrl = DemoUrl
    /\ submitRequest.state = "posted"
    /\ submitRequest.image = file
    /\ recipeData # null
    /\ ~showFlashcards

====
